---- MODULE Spec2Model ----
(***************************************************************************)
(* Risk-Backend: the assessment lifecycle (save, saveDraft, approve,       *)
(* reject) over the relational store, as implemented by                    *)
(* services/assessment_service.py, api/v1/endpoints/assessment_router.py,  *)
(* services/notification_service.py, services/assessment_id_service.py     *)
(* and database/connection.py.                                             *)
(*                                                                         *)
(* Every table is a sequence of rows in insertion order.  The serial id of *)
(* a row of a table that is never deleted from (assessments,               *)
(* notifications) is its index.  Strings the code takes apart (dates,      *)
(* protocol names, generated codes) are tuples of one-character strings.   *)
(* SQL NULL / Python None is the value NULL; the integer 0 stands for a    *)
(* missing (falsy) integer id and <<>> for a missing (falsy) string.       *)
(***************************************************************************)
EXTENDS Integers, Sequences, FiniteSets, TLC

VARIABLES
    assessments,       \* "Risk Assessment".assessments
    risks,             \* assessment_risks
    plans,             \* assessment_risk_mitigation_plans
    dashboards,        \* assessment_risk_dashboard
    summary_comments,  \* assessment_summary_comments
    section_comments,  \* section_comments
    approvals,         \* assessment_approvals
    timeline,          \* assessment_timeline
    notifications,     \* assessment_notifications
    audit_trail,       \* assessment_audit_trail
    user_context,      \* what set_current_user_context stored on the connection
    last,              \* the request handled last and its outcome
    nOps,              \* number of requests that reached the store's write path
    inflight           \* requests between their existence check and their writes

tables == <<assessments, risks, plans, dashboards, summary_comments,
            section_comments, approvals, timeline, notifications, audit_trail,
            user_context>>
vars == <<assessments, risks, plans, dashboards, summary_comments,
          section_comments, approvals, timeline, notifications, audit_trail,
          user_context, last, nOps, inflight>>

\* Bounds of the exploration.
MaxOps == 4
\* Under store failures: the number of requests, and the highest ordinal of
\* the write statement of a request that the store may refuse.
MaxFaultOps == 3
MaxFailAt == 8
\* Under interleaving: the number of requests, and of server processes.
MaxRaceOps == 3
MaxWorkers == 2
\* Under interleaved decisions: the number of requests.
MaxDecideOps == 4

NULL == "NULL"

(***************************************************************************)
(* The catalogs the lifecycle reads and never writes.                      *)
(***************************************************************************)
\* riskassessment_site_study: study 1 is active with a PI and a Site
\* Director of record; study 2 is inactive and has no Site Director.
\* Studies 1, 2 and 6 share site, sponsor code and the first three
\* characters of the protocol; study 4 has no sponsor code; the protocol of
\* study 5 has a dash among its first three characters.
StudyTable ==
    1 :> [site |-> "Flourish San Antonio", sponsor_code |-> <<"C", "F", "P">>,
          protocol |-> <<"C", "I", "N", "1", "1", "0">>, status |-> "Active",
          principal_investigator |-> "Pat", principal_investigator_email |-> "pi@x.com",
          site_director |-> "Dana", site_director_email |-> "sd@x.com"]
    @@
    2 :> [site |-> "Flourish San Antonio", sponsor_code |-> <<"C", "F", "P">>,
          protocol |-> <<"C", "I", "N", "1", "1", "0">>, status |-> "Inactive",
          principal_investigator |-> "Pat", principal_investigator_email |-> "pi@x.com",
          site_director |-> NULL, site_director_email |-> NULL]
    @@
    4 :> [site |-> "Flourish San Antonio", sponsor_code |-> <<>>,
          protocol |-> <<"C", "I", "N", "1", "1", "0">>, status |-> "Active",
          principal_investigator |-> "Pat", principal_investigator_email |-> "pi@x.com",
          site_director |-> "Dana", site_director_email |-> "sd@x.com"]
    @@
    5 :> [site |-> "Flourish San Antonio", sponsor_code |-> <<"M", "S", "D">>,
          protocol |-> <<"M", "K", "-", "3", "4", "7", "5">>, status |-> "Active",
          principal_investigator |-> "Pat", principal_investigator_email |-> "pi@x.com",
          site_director |-> "Dana", site_director_email |-> "sd@x.com"]
    @@
    6 :> [site |-> "Flourish San Antonio", sponsor_code |-> <<"C", "F", "P">>,
          protocol |-> <<"C", "I", "N", "2", "0", "0">>, status |-> "Active",
          principal_investigator |-> "Pat", principal_investigator_email |-> "pi@x.com",
          site_director |-> "Dana", site_director_email |-> "sd@x.com"]

StudyIds == DOMAIN StudyTable

\* risk_factors rows with is_active = true; any other id is not in the catalog.
ActiveRiskFactors == {1, 2}

\* The users a bearer token or a request body can name; the token of
\* anon@x.com carries no name claim.
UserName == ("pi@x.com" :> "Pat") @@ ("sd@x.com" :> "Dana") @@ ("other@x.com" :> "Olli")
           @@ ("SD@X.com" :> "Dana") @@ ("anon@x.com" :> NULL)
User(email) == [name |-> UserName[email], email |-> email]

\* str.lower() / SQL LOWER() on the e-mail addresses of the model.
Lower(email) == IF email = "SD@X.com" THEN "sd@x.com" ELSE email

(***************************************************************************)
(* The store: one record of tables, so that a handler can thread it        *)
(* through its statements.                                                 *)
(***************************************************************************)
Store == [assessments |-> assessments, risks |-> risks, plans |-> plans,
          dashboards |-> dashboards, summary_comments |-> summary_comments,
          section_comments |-> section_comments, approvals |-> approvals,
          timeline |-> timeline, notifications |-> notifications,
          audit_trail |-> audit_trail, user_context |-> user_context]

\* Rows of a table that belong to assessment aid.
RowsOf(table, aid) == SelectSeq(table, LAMBDA r : r.assessment_id = aid)
\* DELETE FROM table WHERE assessment_id = aid
DeleteWhere(table, aid) == SelectSeq(table, LAMBDA r : r.assessment_id # aid)

\* SELECT id FROM assessments WHERE study_id = s (ids in insertion order)
AssessmentsOfStudy(d, s) ==
    {i \in 1..Len(d.assessments) : d.assessments[i].study_id = s}

Min(S) == CHOOSE x \in S : \A y \in S : x <= y
Max(S) == CHOOSE x \in S : \A y \in S : x >= y

(***************************************************************************)
(* database/connection.py: execute_query commits every non-SELECT          *)
(* statement on its own, and on an error rolls back only the statement     *)
(* that failed before re-raising.  A handler run is threaded through a     *)
(* context: d the store so far, n the number of write statements issued,   *)
(* failAt the ordinal of the write statement the store refuses (0: none),  *)
(* failed whether an exception is propagating out of the handler.  A       *)
(* handler adds its own local variables to the context.                    *)
(***************************************************************************)
Run(d, failAt) == [d |-> d, n |-> 0, failAt |-> failAt, failed |-> FALSE]

\* One non-SELECT statement whose effect on the store is newd.
Exec(c, newd) ==
    IF c.failed THEN c
    ELSE IF c.n + 1 = c.failAt THEN [c EXCEPT !.n = @ + 1, !.failed = TRUE]
    ELSE [c EXCEPT !.n = @ + 1, !.d = newd]

\* Mutant: the try block around the statement re-raises.
ExecCaught_Fatal(c, newd) ==
    IF c.failed THEN c
    ELSE IF c.n + 1 = c.failAt THEN [c EXCEPT !.n = @ + 1, !.failed = TRUE]
    ELSE [c EXCEPT !.n = @ + 1, !.d = newd]

\* The same statement inside a try block whose except clause only logs.
ExecCaught(c, newd) ==
    IF c.failed THEN c
    ELSE IF c.n + 1 = c.failAt THEN [c EXCEPT !.n = @ + 1]
    ELSE [c EXCEPT !.n = @ + 1, !.d = newd]

(***************************************************************************)
(* services/assessment_id_service.py.  A code is a string, modelled as a   *)
(* sequence of one-character strings.                                      *)
(***************************************************************************)
Digits == <<"0", "1", "2", "3", "4", "5", "6", "7", "8", "9">>

\* The characters of the codes in code-point order, the order of the
\* ORDER BY on assessment_id.
Alphabet ==
    <<"%", "-">> \o Digits \o
    <<"A", "B", "C", "D", "E", "F", "G", "H", "I", "J", "K", "L", "M",
      "N", "O", "P", "Q", "R", "S", "T", "U", "V", "W", "X", "Y", "Z", "_">>

Rank(ch) == CHOOSE i \in 1..Len(Alphabet) : Alphabet[i] = ch

\* a < b as strings.
RECURSIVE Less(_, _)
Less(a, b) ==
    IF b = <<>> THEN FALSE
    ELSE IF a = <<>> THEN TRUE
    ELSE IF Head(a) = Head(b) THEN Less(Tail(a), Tail(b))
    ELSE Rank(Head(a)) < Rank(Head(b))

\* s LIKE p: % matches any run of characters, _ any one character.
RECURSIVE Like(_, _)
Like(s, p) ==
    IF p = <<>> THEN s = <<>>
    ELSE IF Head(p) = "%" THEN Like(s, Tail(p)) \/ (s # <<>> /\ Like(Tail(s), p))
    ELSE s # <<>> /\ (Head(p) = "_" \/ Head(p) = Head(s)) /\ Like(Tail(s), Tail(p))

\* str(n) for n >= 0.
RECURSIVE Decimal(_)
Decimal(n) ==
    IF n < 10 THEN <<Digits[n + 1]>>
    ELSE Decimal(n \div 10) \o <<Digits[(n % 10) + 1]>>

\* f"{sequence:03d}": zero-padded to three digits, longer when n >= 1000.
Format03d(n) ==
    LET s == Decimal(n)
    IN  IF Len(s) >= 3 THEN s ELSE [i \in 1..(3 - Len(s)) |-> "0"] \o s

\* code.split('-')[-1]
LastPart(code) ==
    LET dashes == {i \in 1..Len(code) : code[i] = "-"}
    IN  IF dashes = {} THEN code ELSE SubSeq(code, Max(dashes) + 1, Len(code))

\* int(s) on a string of digits; -1 stands for the ValueError on any other.
RECURSIVE IntOfDigits(_)
IntOfDigits(s) ==
    IF s = <<>> THEN 0
    ELSE IntOfDigits(SubSeq(s, 1, Len(s) - 1)) * 10
         + (CHOOSE k \in 0..9 : Digits[k + 1] = s[Len(s)])
ParseInt(s) ==
    IF s = <<>> \/ \E i \in 1..Len(s) : \A k \in 1..10 : Digits[k] # s[i]
    THEN -1
    ELSE IntOfDigits(s)

\* "-".join(parts)
RECURSIVE Join(_)
Join(parts) ==
    IF Len(parts) = 1 THEN parts[1]
    ELSE parts[1] \o <<"-">> \o Join(Tail(parts))

\* _create_site_code, on the site names of StudyTable.
CreateSiteCode(site_name) ==
    IF site_name = "" \/ site_name = "UNK" THEN <<"U", "N", "K">>
    ELSE IF site_name = "Flourish San Antonio" THEN <<"F", "S", "A">>
    ELSE IF site_name = "Flourish San Diego" THEN <<"F", "S", "D">>
    ELSE <<"F", "L", "R">>

\* strptime('%Y-%m-%d') then strftime('%Y%m%d') on a well-formed date; a
\* date already written as YYYYMMDD is taken as it is.
FormatDate(assessment_date) == SelectSeq(assessment_date, LAMBDA ch : ch # "-")

\* The parts of a code before its sequence number: the sponsor code is left
\* out when it is empty, the protocol code is the first three characters.
CodePrefix(study_id, assessment_date) ==
    LET study == StudyTable[study_id]
        protocol_code == IF study.protocol = <<>> THEN <<"U", "N", "K">>
                         ELSE SubSeq(study.protocol, 1,
                                     IF Len(study.protocol) < 3 THEN Len(study.protocol) ELSE 3)
        site_code == CreateSiteCode(study.site)
        date_formatted == FormatDate(assessment_date)
    IN  IF study.sponsor_code # <<>>
        THEN <<site_code, study.sponsor_code, protocol_code, date_formatted>>
        ELSE <<site_code, protocol_code, date_formatted>>

\* _get_next_sequence: SELECT assessment_id ... WHERE assessment_id LIKE
\* pattern ORDER BY assessment_id DESC LIMIT 1, then int() of the last part
\* of that code plus one; 1 when no code matches or the part is no number.
GetNextSequence(d, prefix) ==
    LET pattern == Join(prefix) \o <<"-", "%">>
        matching == {i \in 1..Len(d.assessments) :
                        Like(d.assessments[i].assessment_id, pattern)}
        top == CHOOSE i \in matching : \A j \in matching :
                    ~Less(d.assessments[i].assessment_id, d.assessments[j].assessment_id)
        last_sequence == ParseInt(LastPart(d.assessments[top].assessment_id))
    IN  IF matching = {} THEN 1
        ELSE IF last_sequence = -1 THEN 1
        ELSE last_sequence + 1

\* The code of a given sequence number.
FormatCode(prefix, sequence) == Join(prefix) \o <<"-">> \o Format03d(sequence)

GenerateAssessmentId(d, study_id, assessment_date) ==
    LET prefix == CodePrefix(study_id, assessment_date)
    IN  FormatCode(prefix, GetNextSequence(d, prefix))

(***************************************************************************)
(* The statements of save_assessment (services/assessment_service.py).     *)
(***************************************************************************)
\* Mutant: the UPDATE of the header leaves the status column alone.
UpdateAssessment_KeepStatus(d, aid, p, user) ==
    [d EXCEPT !.assessments[aid] =
        [@ EXCEPT !.assessment_date = p.assessment_date,
                  !.monitoring_schedule = p.monitoring_schedule,
                  !.updated_by_email = user.email]]

\* UPDATE assessments SET ..., status = 'Pending Review' WHERE id = aid
UpdateAssessment(d, aid, p, user) ==
    [d EXCEPT !.assessments[aid] =
        [@ EXCEPT !.assessment_date = p.assessment_date,
                  !.monitoring_schedule = p.monitoring_schedule,
                  !.status = "Pending Review",
                  !.updated_by_email = user.email]]

\* INSERT INTO assessments (...) VALUES (..., 'In Progress', ...)
InsertAssessment(d, p, user, code) ==
    [d EXCEPT !.assessments = Append(@,
        [study_id |-> p.study_id, assessment_id |-> code,
         assessment_date |-> p.assessment_date,
         monitoring_schedule |-> p.monitoring_schedule,
         status |-> "In Progress",
         conducted_by_email |-> user.email,
         updated_by_email |-> user.email])]

\* SELECT id ... WHERE study_id = s AND assessment_id = code
\* ORDER BY created_at DESC LIMIT 1
NewestAssessment(d, s, code) ==
    Max({i \in 1..Len(d.assessments) :
            d.assessments[i].study_id = s /\ d.assessments[i].assessment_id = code})

\* DELETE FROM <table t> WHERE assessment_id = aid, as one statement.
DeleteRows(c, t, aid) == Exec(c, [c.d EXCEPT ![t] = DeleteWhere(@, aid)])

\* Mutant: the update path without the DELETE of the mitigation plans.
DeleteChildren_KeepPlans(c, aid) ==
    DeleteRows(
        DeleteRows(
            DeleteRows(
                DeleteRows(c, "dashboards", aid),
                "summary_comments", aid),
            "section_comments", aid),
        "approvals", aid)

\* The five DELETEs of the update path, one statement each.
DeleteChildren(c, aid) ==
    DeleteRows(
        DeleteRows(
            DeleteRows(
                DeleteRows(
                    DeleteRows(c, "plans", aid),
                    "dashboards", aid),
                "summary_comments", aid),
            "section_comments", aid),
        "approvals", aid)

\* SELECT id FROM assessment_risks WHERE assessment_id = aid AND risk_factor_id = f
RiskRows(d, aid, f) ==
    {i \in 1..Len(d.risks) :
        d.risks[i].assessment_id = aid /\ d.risks[i].risk_factor_id = f}

\* The audited columns of assessment_risks and their names in the trail.
AuditedFields ==
    <<[column |-> "severity", field_name |-> "Severity"],
      [column |-> "likelihood", field_name |-> "Likelihood"],
      [column |-> "risk_score", field_name |-> "Risk Score"],
      [column |-> "risk_level", field_name |-> "Risk Level"]>>

\* A column value as the text the trail stores: the level is text already.
AsText(column, v) == IF column = "risk_level" THEN v ELSE ToString(v)

\* log_assessment_risk_changes for one updated row: one entry per audited
\* column whose value differs, attributed to the connection's user context.
RowChanges(old, new, context) ==
    LET entry(f) == [assessment_id |-> old.assessment_id,
                     risk_factor_id |-> old.risk_factor_id,
                     field_name |-> f.field_name,
                     old_value |-> AsText(f.column, old[f.column]),
                     new_value |-> AsText(f.column, new[f.column]),
                     changed_by_name |-> context.name,
                     changed_by_email |-> context.email]
    IN  SelectSeq([k \in 1..Len(AuditedFields) |-> entry(AuditedFields[k])],
                  LAMBDA e : e.old_value # e.new_value)

\* The columns the UPDATE of a risk score sets.
Updated(row, score) ==
    [row EXCEPT !.severity = score.severity, !.likelihood = score.likelihood,
                !.risk_score = score.risk_score, !.risk_level = score.risk_level]

\* trigger_assessment_risk_audit over the rows an UPDATE touches, from row i on.
RECURSIVE LogAssessmentRiskChanges(_, _, _, _)
LogAssessmentRiskChanges(d, aid, score, i) ==
    IF i > Len(d.risks) THEN <<>>
    ELSE (IF i \in RiskRows(d, aid, score.risk_factor_id)
          THEN RowChanges(d.risks[i], Updated(d.risks[i], score), d.user_context)
          ELSE <<>>)
         \o LogAssessmentRiskChanges(d, aid, score, i + 1)

\* UPDATE assessment_risks SET ... WHERE assessment_id = aid AND risk_factor_id = f
UpdateRisk(d, aid, score) ==
    [d EXCEPT !.risks =
        [i \in 1..Len(@) |->
            IF i \in RiskRows(d, aid, score.risk_factor_id)
            THEN Updated(@[i], score)
            ELSE @[i]],
              !.audit_trail = @ \o LogAssessmentRiskChanges(d, aid, score, 1)]

\* INSERT INTO assessment_risks (...)
InsertRisk(d, aid, score) ==
    [d EXCEPT !.risks = Append(@, [assessment_id |-> aid] @@ score)]

\* Mutant: the loop inserts without looking for an existing row.
UpsertRisk_AlwaysInsert(c, aid, score) ==
    Exec(c, InsertRisk(c.d, aid, score))

\* One pass of the risk-score loop: the check query, then UPDATE or INSERT.
UpsertRisk(c, aid, score) ==
    IF RiskRows(c.d, aid, score.risk_factor_id) # {}
    THEN Exec(c, UpdateRisk(c.d, aid, score))
    ELSE Exec(c, InsertRisk(c.d, aid, score))

\* One pass of the loop of save_assessment.  The loop stores the check
\* query's rows in existing_result, the variable that held the rows of the
\* assessment lookup; c.existing_result is whether that variable is non-empty.
UpsertRiskStep(c, score) ==
    [UpsertRisk(c, c.aid, score)
        EXCEPT !.existing_result = RiskRows(c.d, c.aid, score.risk_factor_id) # {}]

\* The loop over the payload's risk scores.
RECURSIVE UpsertRisks(_, _, _)
UpsertRisks(c, scores, i) ==
    IF i > Len(scores) \/ c.failed THEN c
    ELSE UpsertRisks(UpsertRiskStep(c, scores[i]), scores, i + 1)

\* The INSERT loops of the child collections: one statement per payload row.
RECURSIVE InsertRows(_, _, _, _, _)
InsertRows(c, t, aid, rows, i) ==
    IF i > Len(rows) THEN c
    ELSE InsertRows(
            Exec(c, [c.d EXCEPT ![t] = Append(@, [assessment_id |-> aid] @@ rows[i])]),
            t, aid, rows, i + 1)

\* INSERT INTO assessment_risk_dashboard, when the payload carries a
\* dashboard (<<>> is a payload without one, else a one-element tuple).
InsertDashboard(c, aid, risk_dashboard) ==
    IF risk_dashboard = <<>> THEN c
    ELSE Exec(c, [c.d EXCEPT !.dashboards =
                    Append(@, [assessment_id |-> aid] @@ risk_dashboard[1])])

\* _handle_assessment_timeline.  stored is the payload's
\* _current_monitoring_schedule entry (NULL when the key was never set);
\* every exception raised inside is caught and logged.
HandleAssessmentTimeline(c, study_id, aid, p, user, is_new_assessment, stored) ==
    LET entry(label, schedule) ==
            [study_id |-> study_id, assessment_id |-> aid,
             schedule_type |-> [label |-> label, schedule |-> schedule],
             assessed_by_email |-> user.email]
    IN  IF is_new_assessment
        THEN ExecCaught(c, [c.d EXCEPT !.timeline =
                              Append(@, entry("Initial Assessment", NULL))])
        ELSE IF stored # NULL /\ stored # p.monitoring_schedule
        THEN ExecCaught(c, [c.d EXCEPT !.timeline =
                              Append(@, entry("Schedule Update", p.monitoring_schedule))])
        ELSE c

\* Mutant: the record of a save always carries the placeholders.
InitialSaveApproval_Placeholders(aid, study_id) ==
    [assessment_id |-> aid, action |-> "Initial Save",
     action_by_name |-> "Unknown", action_by_email |-> "unknown@email.com",
     reason |-> "Assessment saved"]

\* The approval record of a save: attributed to the study's Site Director.
InitialSaveApproval(aid, study_id) ==
    LET study == StudyTable[study_id]
    IN  [assessment_id |-> aid, action |-> "Initial Save",
         action_by_name |-> IF study.site_director = NULL THEN "Unknown"
                            ELSE study.site_director,
         action_by_email |-> IF study.site_director_email = NULL THEN "unknown@email.com"
                             ELSE study.site_director_email,
         reason |-> "Assessment saved"]

\* Delete the existing approval record when the check query finds one.
DeleteOldApproval(c, aid) ==
    IF RowsOf(c.d.approvals, aid) # <<>> THEN DeleteRows(c, "approvals", aid) ELSE c

\* INSERT INTO assessment_approvals (..., 'Initial Save', ...)
InsertInitialSave(c, aid, study_id) ==
    Exec(c, [c.d EXCEPT !.approvals = Append(@, InitialSaveApproval(aid, study_id))])

\* The approval block of save_assessment.
ResetApproval(c, aid, study_id) ==
    InsertInitialSave(DeleteOldApproval(c, aid), aid, study_id)

(***************************************************************************)
(* services/notification_service.py                                        *)
(***************************************************************************)
\* create_notification: the required-field check, then the INSERT.  Both of
\* its callers catch whatever it raises, so a refused notification leaves
\* the context as it was.
CreateNotification(c, data) ==
    IF c.failed THEN c
    ELSE IF data.assessment_id = 0 \/ data.action = ""
            \/ data.action_by_name \in {"", NULL}
            \/ data.action_by_email \in {"", NULL} \/ data.reason \in {"", NULL}
            \/ data.target_user_type = "" \/ data.study_id = 0
    THEN c
    ELSE ExecCaught(c, [c.d EXCEPT !.notifications =
                          Append(@, data @@ [read_status |-> FALSE])])

\* create_assessment_submission_notification
SubmissionNotification(aid, study_id, submitter, submitter_type) ==
    LET base == [assessment_id |-> aid, study_id |-> study_id,
                 action_by_name |-> submitter.name, action_by_email |-> submitter.email]
    IN  IF submitter_type = "PI"
        THEN base @@ [target_user_type |-> "SD", action |-> "Initial Save",
                      reason |-> "Assessment saved by Principal Investigator"]
        ELSE IF submitter_type = "SD"
        THEN base @@ [target_user_type |-> "PI", action |-> "SD Created",
                      reason |-> "Assessment created by Study Director"]
        ELSE base @@ [target_user_type |-> "SD", action |-> "Initial Save",
                      reason |-> "Assessment saved"]

\* create_assessment_approval_notification
ApprovalNotification(aid, study_id, request, action) ==
    [assessment_id |-> aid, study_id |-> study_id, action |-> action,
     action_by_name |-> request.action_by_name,
     action_by_email |-> request.action_by_email,
     reason |-> request.reason, target_user_type |-> "PI"]

\* The CASE expression of save_assessment that types the submitter.
SubmitterType(study_id, user_email) ==
    LET study == StudyTable[study_id]
    IN  IF study.principal_investigator_email # NULL
           /\ Lower(study.principal_investigator_email) = Lower(user_email) THEN "PI"
        ELSE IF study.site_director_email # NULL
           /\ Lower(study.site_director_email) = Lower(user_email) THEN "SD"
        ELSE "PI"

(***************************************************************************)
(* AssessmentService.save_assessment.  The result of one call: the store   *)
(* it leaves, its outcome ("ok", "bad_request" for the HTTPException 400   *)
(* raised by a validation, "internal" for the HTTPException 500 that wraps *)
(* any other exception), the assessment it worked on (0: none) and whether *)
(* the lookup by study found one; refused says that the handler returned   *)
(* before its first write statement.                                       *)
(***************************************************************************)
Refused(d, outcome, detail) ==
    [d |-> d, outcome |-> outcome, detail |-> detail, aid |-> 0, found |-> FALSE,
     refused |-> TRUE, updated_count |-> 0]

\* Mutant: the risk-factor validation accepts every id.
InvalidRiskFactors_None(risk_scores) == {}

\* The ids the validation query does not return.
InvalidRiskFactors(risk_scores) ==
    {risk_scores[i].risk_factor_id : i \in 1..Len(risk_scores)}
        \ (ActiveRiskFactors \cup {0})

\* The user of the bearer token, with the e-mail lower-cased.
TokenUser(token_user) == [name |-> token_user.name, email |-> Lower(token_user.email)]

\* The lookup of the study's assessment, and the locals of the handler: aid
\* the id of the assessment worked on (0 until known), found whether the
\* lookup returned a row, existing_result whether the variable of that name
\* is non-empty, stored the schedule read before the UPDATE (NULL when none
\* was read).
Lookup(d, study_id, failAt) ==
    LET existing == AssessmentsOfStudy(d, study_id)
    IN  Run(d, failAt) @@
        [found |-> existing # {},
         existing_result |-> existing # {},
         aid |-> IF existing # {} THEN Min(existing) ELSE 0,
         stored |-> IF existing # {}
                    THEN d.assessments[Min(existing)].monitoring_schedule ELSE NULL,
         custom_assessment_id |-> <<>>]

\* The update path up to the risk-score loop.
SaveUpdateHeader(c, aid, p, user) ==
    DeleteChildren(Exec(c, UpdateAssessment(c.d, aid, p, user)), aid)

\* The id of the row just inserted, read back by study and code.
ReadNewId(c, study_id, code) ==
    IF c.failed THEN c ELSE [c EXCEPT !.aid = NewestAssessment(c.d, study_id, code)]

InsertWithCode(c, p, user, code) ==
    ReadNewId(Exec(c, InsertAssessment(c.d, p, user, code)), p.study_id, code)

\* custom_assessment_id = generate_assessment_id(...): the handler's local
\* holds the code from the sequence lookup until the INSERT uses it.
GenerateCode(c, p) ==
    [c EXCEPT !.custom_assessment_id =
        GenerateAssessmentId(c.d, p.study_id, p.assessment_date)]

\* Mutant: the code is looked up again by the INSERT itself.
CodeToInsert_Fresh(c, p) == GenerateCode(c, p)

\* The handler generates its code once: a handler that goes on after the
\* sequence lookup keeps the code it has.
CodeToInsert(c, p) == IF c.custom_assessment_id = <<>> THEN GenerateCode(c, p) ELSE c

\* The INSERT with the code of the handler's local.
InsertGenerated(c, p, user) == InsertWithCode(c, p, user, c.custom_assessment_id)

\* The insert path up to the risk-score loop.
SaveInsertHeader(c, p, user) == InsertGenerated(CodeToInsert(c, p), p, user)

\* SELECT set_current_user_context(user_name, user_email): no write statement.
SetCurrentUserContext(c, user) ==
    IF c.failed THEN c
    ELSE [c EXCEPT !.d.user_context = [name |-> user.name, email |-> user.email]]

\* Mutant: the save never sets the user context.
SaveHeader_NoContext(c, p, user) ==
    IF c.found THEN SaveUpdateHeader(c, c.aid, p, user) ELSE SaveInsertHeader(c, p, user)

\* The header of the save and the user context that follows it on both paths.
SaveHeader(c, p, user) ==
    SetCurrentUserContext(
        IF c.found THEN SaveUpdateHeader(c, c.aid, p, user) ELSE SaveInsertHeader(c, p, user),
        user)

SaveRisks(c, p) == UpsertRisks(c, p.risk_scores, 1)
SavePlans(c, p) == InsertRows(c, "plans", c.aid, p.risk_mitigation_plans, 1)
SaveDashboard(c, p) == InsertDashboard(c, c.aid, p.risk_dashboard)
SaveSummaryComments(c, p) == InsertRows(c, "summary_comments", c.aid, p.summary_comments, 1)
SaveSectionComments(c, p) == InsertRows(c, "section_comments", c.aid, p.section_comments, 1)

\* is_new_assessment as save_assessment passes it to the timeline tracker.
IsNewAssessment(existing_result) == ~existing_result

SaveTimeline(c, p, user) ==
    IF c.failed THEN c
    ELSE HandleAssessmentTimeline(c, p.study_id, c.aid, p, user,
                                  IsNewAssessment(c.existing_result), c.stored)

SaveApproval(c, p) == IF c.failed THEN c ELSE ResetApproval(c, c.aid, p.study_id)

SaveNotification(c, p, user) ==
    CreateNotification(c, SubmissionNotification(c.aid, p.study_id, user,
                                                 SubmitterType(p.study_id, user.email)))

\* What a handler that reached its first write statement answers.
Answer(c, failure, success) ==
    [d |-> c.d, outcome |-> IF c.failed THEN "internal" ELSE "ok",
     detail |-> IF c.failed THEN failure ELSE success,
     aid |-> c.aid, found |-> c.found, refused |-> FALSE, updated_count |-> 0]

\* Mutant: the notification is created before the approval block.
SaveStatements_NotifyFirst(c, p, user) ==
    SaveApproval(
        SaveNotification(
            SaveSectionComments(
                SaveTimeline(
                    SaveSummaryComments(
                        SaveDashboard(
                            SavePlans(
                                SaveRisks(
                                    SaveHeader(c, p, user),
                                    p),
                                p),
                            p),
                        p),
                    p, user),
                p),
            p, user),
        p)

\* The statements of save_assessment in order, after the validations.
SaveStatements(c, p, user) ==
    SaveNotification(
        SaveApproval(
            SaveSectionComments(
                SaveTimeline(
                    SaveSummaryComments(
                        SaveDashboard(
                            SavePlans(
                                SaveRisks(
                                    SaveHeader(c, p, user),
                                    p),
                                p),
                            p),
                        p),
                    p, user),
                p),
            p),
        p, user)

SaveAssessment(d, p, token_user, failAt) ==
    IF p.study_id = 0 \/ p.assessment_date = <<>>
    THEN Refused(d, "bad_request", "Study ID and assessment date are required")
    ELSE IF p.study_id \notin StudyIds
    THEN Refused(d, "bad_request", "Study ID does not exist")
    ELSE IF InvalidRiskFactors(p.risk_scores) # {}
    THEN Refused(d, "bad_request", "Invalid risk factor IDs")
    ELSE Answer(SaveStatements(Lookup(d, p.study_id, failAt), p, TokenUser(token_user)),
                "Save assessment error", "Assessment saved successfully")

(***************************************************************************)
(* AssessmentService.save_assessment_draft                                 *)
(***************************************************************************)
\* Mutant: the draft's UPDATE leaves the status as it finds it.
UpdateAssessmentDraft_KeepStatus(d, aid, p, user) ==
    [d EXCEPT !.assessments[aid] =
        [@ EXCEPT !.assessment_date = p.assessment_date,
                  !.monitoring_schedule = p.monitoring_schedule,
                  !.updated_by_email = user.email]]

\* Mutant: the draft's UPDATE sets the status of the full save.
UpdateAssessmentDraft_Pending(d, aid, p, user) ==
    [d EXCEPT !.assessments[aid] =
        [@ EXCEPT !.assessment_date = p.assessment_date,
                  !.monitoring_schedule = p.monitoring_schedule,
                  !.status = "Pending Review",
                  !.updated_by_email = user.email]]

\* UPDATE assessments SET assessment_date = COALESCE(%s, assessment_date),
\* ..., status = 'In Progress' WHERE id = aid
UpdateAssessmentDraft(d, aid, p, user) ==
    [d EXCEPT !.assessments[aid] =
        [@ EXCEPT !.assessment_date = p.assessment_date,  \* the payload's string is never NULL
                  !.monitoring_schedule = p.monitoring_schedule,
                  !.status = "In Progress",
                  !.updated_by_email = user.email]]

\* One pass of the draft's risk-score loop: a score is written only when its
\* risk_factor_id and its values are truthy.
UpsertRiskDraft(c, score) ==
    IF score.risk_factor_id # 0 /\ score.severity # 0 /\ score.likelihood # 0
    THEN UpsertRisk(c, c.aid, score) ELSE c

RECURSIVE UpsertRisksDraft(_, _, _)
UpsertRisksDraft(c, scores, i) ==
    IF i > Len(scores) THEN c
    ELSE UpsertRisksDraft(UpsertRiskDraft(c, scores[i]), scores, i + 1)

\* A child collection of the draft: untouched when the payload's list is
\* empty, else deleted and re-inserted from the rows whose text is truthy.
ReplaceRowsDraft(c, t, field, rows) ==
    IF rows = <<>> THEN c
    ELSE InsertRows(DeleteRows(c, t, c.aid), t, c.aid,
                    SelectSeq(rows, LAMBDA r : r[field] # ""), 1)

ReplaceDashboardDraft(c, risk_dashboard) ==
    IF risk_dashboard = <<>> THEN c
    ELSE InsertDashboard(DeleteRows(c, "dashboards", c.aid), c.aid, risk_dashboard)

DraftHeader(c, p, user) ==
    SetCurrentUserContext(
        IF c.found THEN Exec(c, UpdateAssessmentDraft(c.d, c.aid, p, user))
        ELSE SaveInsertHeader(c, p, user),
        user)

\* The statements of save_assessment_draft in order, after the validations.
DraftStatements(c, p, user) ==
    ReplaceRowsDraft(
        ReplaceRowsDraft(
            ReplaceDashboardDraft(
                ReplaceRowsDraft(
                    UpsertRisksDraft(DraftHeader(c, p, user), p.risk_scores, 1),
                    "plans", "risk_item", p.risk_mitigation_plans),
                p.risk_dashboard),
            "summary_comments", "comment_text", p.summary_comments),
        "section_comments", "comment_text", p.section_comments)

SaveAssessmentDraft(d, p, token_user, failAt) ==
    IF p.study_id = 0
    THEN Refused(d, "bad_request", "Study ID is required for draft save")
    ELSE IF p.study_id \notin StudyIds
    THEN Refused(d, "bad_request", "Study ID does not exist")
    ELSE IF AssessmentsOfStudy(d, p.study_id) = {} /\ p.assessment_date = <<>>
    \* generate_assessment_id is handed today's date object, which strptime
    \* refuses with a TypeError
    THEN Refused(d, "internal", "Draft save assessment error")
    ELSE Answer(DraftStatements(Lookup(d, p.study_id, failAt), p, TokenUser(token_user)),
                "Draft save assessment error", "Draft assessment saved successfully")

(***************************************************************************)
(* api/v1/endpoints/assessment_router.py: approve_assessment and           *)
(* reject_assessment.  decision is "Approved" or "Rejected".               *)
(***************************************************************************)
\* Mutant: the reason is tested without being stripped.
Strip_Identity(reason) == reason

\* str.strip() on the reasons of the model.
Strip(reason) == IF reason \in {" ", "  "} THEN "" ELSE reason

\* Mutant: a decided assessment can be decided again.
Reviewable_Any == {"Pending Review", "In Progress", "Approved", "Rejected"}

\* The statuses from which a decision is accepted.
Reviewable == {"Pending Review", "In Progress"}

\* Mutant: the UPDATE of the decision also clears the monitoring schedule.
UpdateStatus_ClearsSchedule(d, aid, decision, request) ==
    [d EXCEPT !.assessments[aid] =
        [@ EXCEPT !.status = decision, !.updated_by_email = request.action_by_email,
                  !.monitoring_schedule = NULL]]

\* UPDATE assessments SET status = decision, updated_by_* = ... WHERE id = aid
UpdateStatus(d, aid, decision, request) ==
    [d EXCEPT !.assessments[aid] =
        [@ EXCEPT !.status = decision, !.updated_by_email = request.action_by_email]]

\* Mutant: the decision is recorded under the study's Site Director of record.
InsertApproval_SiteDirector(d, aid, decision, request) ==
    [d EXCEPT !.approvals = Append(@,
        [InitialSaveApproval(aid, d.assessments[aid].study_id)
            EXCEPT !.action = decision, !.reason = request.reason])]

\* INSERT INTO assessment_approvals (...)
InsertApproval(d, aid, decision, request) ==
    [d EXCEPT !.approvals = Append(@,
        [assessment_id |-> aid, action |-> decision,
         action_by_name |-> request.action_by_name,
         action_by_email |-> request.action_by_email,
         reason |-> request.reason])]

\* The notification block: the PI lookup skips inactive studies.
DecisionNotification(c, aid, decision, request) ==
    IF c.failed \/ StudyTable[c.d.assessments[aid].study_id].status = "Inactive" THEN c
    ELSE CreateNotification(c, ApprovalNotification(aid, c.d.assessments[aid].study_id,
                                                    request, decision))

SetStatus(c, aid, decision, request) == Exec(c, UpdateStatus(c.d, aid, decision, request))
RecordDecision(c, aid, decision, request) == Exec(c, InsertApproval(c.d, aid, decision, request))

\* The statements of approve_assessment / reject_assessment in order.
DecisionStatements(c, aid, decision, request) ==
    DecisionNotification(
        RecordDecision(SetStatus(c, aid, decision, request), aid, decision, request),
        aid, decision, request)

DecideAssessment(d, aid, decision, request, failAt) ==
    IF aid \notin 1..Len(d.assessments)
    THEN Refused(d, "not_found", "Assessment not found")
    ELSE IF d.assessments[aid].status \notin Reviewable
    THEN [Refused(d, "conflict", d.assessments[aid].status) EXCEPT !.aid = aid, !.found = TRUE]
    ELSE IF decision = "Rejected" /\ (request.reason = "" \/ Strip(request.reason) = "")
    THEN [Refused(d, "validation", "Reason is required for rejection")
            EXCEPT !.aid = aid, !.found = TRUE]
    ELSE Answer(DecisionStatements(Run(d, failAt) @@ [aid |-> aid, found |-> TRUE],
                                   aid, decision, request),
                "Internal server error", decision)

(***************************************************************************)
(* The requests.  A request the handler refuses before its first write     *)
(* statement leaves the store alone and is not counted in nOps; the        *)
(* requests that can follow it are the ones that can follow the state it   *)
(* was made in, so the exploration continues from that state only.         *)
(***************************************************************************)
Budget == nOps < MaxOps /\ ~last.refused

SetStore(d) ==
    /\ assessments' = d.assessments
    /\ risks' = d.risks
    /\ plans' = d.plans
    /\ dashboards' = d.dashboards
    /\ summary_comments' = d.summary_comments
    /\ section_comments' = d.section_comments
    /\ approvals' = d.approvals
    /\ timeline' = d.timeline
    /\ notifications' = d.notifications
    /\ audit_trail' = d.audit_trail
    /\ user_context' = d.user_context

\* The status of assessment aid before the request ("none": no such row).
StatusOf(d, aid) ==
    IF aid \in 1..Len(d.assessments) THEN d.assessments[aid].status ELSE "none"

\* The status code of the HTTPException behind an outcome of a handler body.
StatusCode ==
    ("ok" :> 200) @@ ("bad_request" :> 400) @@ ("conflict" :> 400) @@ ("validation" :> 400)
    @@ ("not_found" :> 404) @@ ("internal" :> 500)

\* The status code the client receives: the approve and reject endpoints
\* re-raise an HTTPException as it is, the except clause of every other
\* endpoint turns whatever the service raised into a 500.
ClientStatus(op, outcome) ==
    IF outcome = "ok" \/ op \in {"approve", "reject"} THEN StatusCode[outcome]
    ELSE StatusCode["internal"]

Outcome(op, r, req, before) ==
    [op |-> op, outcome |-> r.outcome, detail |-> r.detail, aid |-> r.aid,
     found |-> r.found, refused |-> r.refused, before |-> before, req |-> req,
     updated_count |-> r.updated_count, status_code |-> ClientStatus(op, r.outcome)]

Counted(r) == IF r.refused THEN nOps ELSE nOps + 1

\* The handler's answer r to request req becomes the next state.
Respond(op, r, req) ==
    /\ SetStore(r.d)
    /\ last' = Outcome(op, r, req, IF r.found THEN StatusOf(Store, r.aid) ELSE "none")
    /\ nOps' = Counted(r)

\* POST /saveRisksByStudyId; last.outcome is the answer of the service.
Save(p, email, failAt) ==
    /\ Budget
    /\ Respond("save", SaveAssessment(Store, p, User(email), failAt),
               [payload |-> p, email |-> email, failAt |-> failAt])
    /\ UNCHANGED inflight

\* POST /saveDraft
SaveDraft(p, email, failAt) ==
    /\ Budget
    /\ Respond("saveDraft", SaveAssessmentDraft(Store, p, User(email), failAt),
               [payload |-> p, email |-> email, failAt |-> failAt])
    /\ UNCHANGED inflight

\* POST /{assessment_id}/approve
Approve(aid, request, failAt) ==
    /\ Budget
    /\ Respond("approve", DecideAssessment(Store, aid, "Approved", request, failAt),
               [assessment_id |-> aid, failAt |-> failAt] @@ request)
    /\ UNCHANGED inflight

\* POST /{assessment_id}/reject
Reject(aid, request, failAt) ==
    /\ Budget
    /\ Respond("reject", DecideAssessment(Store, aid, "Rejected", request, failAt),
               [assessment_id |-> aid, failAt |-> failAt] @@ request)
    /\ UNCHANGED inflight

Init ==
    /\ assessments = <<>>
    /\ risks = <<>>
    /\ plans = <<>>
    /\ dashboards = <<>>
    /\ summary_comments = <<>>
    /\ section_comments = <<>>
    /\ approvals = <<>>
    /\ timeline = <<>>
    /\ notifications = <<>>
    /\ audit_trail = <<>>
    /\ user_context = [name |-> NULL, email |-> NULL]
    /\ last = [op |-> "none", outcome |-> "none", detail |-> "", aid |-> 0,
               found |-> FALSE, refused |-> FALSE, before |-> "none", req |-> <<>>,
               updated_count |-> 0, status_code |-> 0]
    /\ nOps = 0
    /\ inflight = {}

(***************************************************************************)
(* The requests explored: one base payload and its variations along one    *)
(* field at a time.                                                        *)
(***************************************************************************)
Date1 == <<"2", "0", "2", "5", "-", "0", "1", "-", "1", "0">>
\* A risk score of the payload: the client sends the derived score and level.
ScoreOf(f, s, l) ==
    [risk_factor_id |-> f, severity |-> s, likelihood |-> l, risk_score |-> s * l,
     risk_level |-> IF s * l >= 4 THEN "High" ELSE "Low"]
Score(f, s) == ScoreOf(f, s, 1)

BasePayload ==
    [study_id |-> 1, assessment_date |-> Date1, monitoring_schedule |-> "Monthly",
     risk_scores |-> <<Score(1, 1)>>, risk_mitigation_plans |-> <<>>,
     risk_dashboard |-> <<>>, summary_comments |-> <<>>, section_comments |-> <<>>]

\* The base payload with every child collection filled with text t.
WithChildren(t) ==
    [BasePayload EXCEPT !.risk_mitigation_plans = <<[risk_item |-> t]>>,
                        !.risk_dashboard = <<[total_risks |-> 1]>>,
                        !.summary_comments = <<[comment_text |-> t]>>,
                        !.section_comments = <<[comment_text |-> t]>>]

\* Study 3 is not in the catalog and study 0 is a missing id; risk factor 3
\* is not an active factor.
SavePayloads ==
    {BasePayload, WithChildren("a")}
    \cup {[BasePayload EXCEPT !.study_id = s] : s \in {0, 2, 3}}
    \cup {[BasePayload EXCEPT !.assessment_date = <<>>]}
    \cup {[BasePayload EXCEPT !.monitoring_schedule = m] : m \in {"Quarterly", NULL}}
    \cup {[BasePayload EXCEPT !.risk_scores = l] :
            l \in {<<>>, <<Score(1, 2)>>, <<ScoreOf(1, 1, 2)>>,
                   <<Score(1, 1), Score(1, 2)>>,
                   <<Score(1, 1), Score(2, 1)>>,
                   <<Score(3, 1)>>, <<Score(1, 1), Score(3, 1)>>}}

DraftPayloads ==
    {BasePayload, WithChildren("b"), WithChildren("")}
    \cup {[BasePayload EXCEPT !.summary_comments =
                <<[comment_text |-> "c"], [comment_text |-> ""]>>]}
    \cup {[BasePayload EXCEPT !.study_id = s] : s \in {0, 3}}
    \cup {[BasePayload EXCEPT !.monitoring_schedule = "Quarterly"]}
    \cup {[BasePayload EXCEPT !.risk_scores = l] :
            l \in {<<Score(1, 2)>>, <<ScoreOf(1, 2, 2)>>, <<Score(2, 2), Score(2, 1)>>}}

SaveRequests ==
    {[payload |-> p, email |-> "pi@x.com"] : p \in SavePayloads}
    \cup {[payload |-> BasePayload, email |-> e] :
            e \in {"SD@X.com", "other@x.com", "anon@x.com"}}

DraftRequests == {[payload |-> p, email |-> "pi@x.com"] : p \in DraftPayloads}

Decision(email, reason) ==
    [action_by_name |-> UserName[email], action_by_email |-> email, reason |-> reason]

ApproveRequests ==
    {Decision("sd@x.com", "looks good"), Decision("other@x.com", "looks good"),
     Decision("sd@x.com", "")}

RejectRequests ==
    {Decision("sd@x.com", "incomplete"), Decision("other@x.com", "incomplete"),
     Decision("sd@x.com", ""), Decision("sd@x.com", " ")}

\* Assessment ids a request can name: every row and one id that is no row.
AssessmentIds == 1..(Len(assessments) + 1)

\* Sequential requests against a store that never refuses a statement.
Next ==
    \/ \E q \in SaveRequests : Save(q.payload, q.email, 0)
    \/ \E q \in DraftRequests : SaveDraft(q.payload, q.email, 0)
    \/ \E aid \in AssessmentIds, q \in ApproveRequests : Approve(aid, q, 0)
    \/ \E aid \in AssessmentIds, q \in RejectRequests : Reject(aid, q, 0)

Spec == Init /\ [][Next]_vars

(***************************************************************************)
(* The same requests against a store that may refuse one write statement   *)
(* of a request (failAt = 0: none). execute_query has committed every      *)
(* statement before it, rolls back only the refused one and re-raises.     *)
(***************************************************************************)
FaultPayloads == {BasePayload, WithChildren("a")}
FailAts == 0..MaxFailAt

\* The four requests of one actor each, with the statement to refuse.
SaveFault(p, f) == nOps < MaxFaultOps /\ Save(p, "pi@x.com", f)
SaveDraftFault(p, f) == nOps < MaxFaultOps /\ SaveDraft(p, "pi@x.com", f)
ApproveFault(aid, f) ==
    nOps < MaxFaultOps /\ Approve(aid, Decision("sd@x.com", "looks good"), f)
RejectFault(aid, f) ==
    nOps < MaxFaultOps /\ Reject(aid, Decision("sd@x.com", "incomplete"), f)

NextFault ==
    \/ \E p \in FaultPayloads, f \in FailAts : SaveFault(p, f)
    \/ \E p \in FaultPayloads, f \in FailAts : SaveDraftFault(p, f)
    \/ \E aid \in AssessmentIds, f \in FailAts : ApproveFault(aid, f)
    \/ \E aid \in AssessmentIds, f \in FailAts : RejectFault(aid, f)

SpecFault == Init /\ [][NextFault]_vars

(***************************************************************************)
(* Requests served by several server processes against the one store.  A   *)
(* save or saveDraft is taken in two steps: the lookup of the study's      *)
(* assessment, and everything after it, which works on what the lookup     *)
(* returned.  inflight holds the requests between the two steps.           *)
(***************************************************************************)
Workers == 1..MaxWorkers

\* What the handler keeps of the lookup.
Locals(c) == [found |-> c.found, existing_result |-> c.existing_result,
              custom_assessment_id |-> c.custom_assessment_id,
              aid |-> c.aid, stored |-> c.stored]

\* The handler's context when it goes on from its lookup against store d.
Resume(d, locals) == Run(d, 0) @@ locals

\* Process w is free to take a request.
CanBegin(w) ==
    /\ nOps + Cardinality(inflight) < MaxRaceOps
    /\ \A r \in inflight : r.w # w

Pending(w, op, p) ==
    [w |-> w, op |-> op, payload |-> p, locals |-> Locals(Lookup(Store, p.study_id, 0))]

\* save_assessment up to the lookup of the study's assessment.
BeginSave(w, p) ==
    /\ CanBegin(w)
    /\ inflight' = inflight \cup {Pending(w, "save", p)}
    /\ UNCHANGED <<tables, last, nOps>>

\* save_assessment_draft up to the lookup of the study's assessment.
BeginDraft(w, p) ==
    /\ CanBegin(w)
    /\ inflight' = inflight \cup {Pending(w, "saveDraft", p)}
    /\ UNCHANGED <<tables, last, nOps>>

\* The payloads of the racing requests: studies 1 and 2 have the same site,
\* sponsor and protocol codes.
RacePayloads == FaultPayloads \cup {[BasePayload EXCEPT !.study_id = 2]}

\* A request that can go on to its statements: one on the insert path has
\* its code.
Ready(r) == r.locals.found \/ r.locals.custom_assessment_id # <<>>

\* save_assessment and save_assessment_draft on the insert path: the
\* sequence lookup of generate_assessment_id, before the INSERT.
ReadSequence(r) ==
    /\ ~Ready(r)
    /\ inflight' = (inflight \ {r}) \cup
            {[r EXCEPT !.locals = Locals(GenerateCode(Resume(Store, r.locals), r.payload))]}
    /\ UNCHANGED <<tables, last, nOps>>

\* save_assessment from the lookup on.
FinishSave(r) ==
    /\ r.op = "save"
    /\ Ready(r)
    /\ Respond("save",
               Answer(SaveStatements(Resume(Store, r.locals), r.payload,
                                     TokenUser(User("pi@x.com"))),
                      "Save assessment error", "Assessment saved successfully"),
               [payload |-> r.payload, email |-> "pi@x.com", failAt |-> 0])
    /\ inflight' = inflight \ {r}

\* save_assessment_draft from the lookup on.
FinishDraft(r) ==
    /\ r.op = "saveDraft"
    /\ Ready(r)
    /\ Respond("saveDraft",
               Answer(DraftStatements(Resume(Store, r.locals), r.payload,
                                      TokenUser(User("pi@x.com"))),
                      "Draft save assessment error", "Draft assessment saved successfully"),
               [payload |-> r.payload, email |-> "pi@x.com", failAt |-> 0])
    /\ inflight' = inflight \ {r}

NextRace ==
    \/ \E w \in Workers, p \in RacePayloads : BeginSave(w, p)
    \/ \E w \in Workers, p \in RacePayloads : BeginDraft(w, p)
    \/ \E r \in inflight : ReadSequence(r)
    \/ \E r \in inflight : FinishSave(r)
    \/ \E r \in inflight : FinishDraft(r)

SpecRace == Init /\ [][NextRace]_vars

(***************************************************************************)
(* Decisions served by several server processes against the one store.  An *)
(* approve or a reject is taken in two steps: the SELECT of the assessment *)
(* with the checks on what it returned, and the statements after the       *)
(* checks.  No statement of the handler locks the row, and execute_query   *)
(* commits each statement on its own.  inflight holds the decisions        *)
(* between the two steps.                                                  *)
(***************************************************************************)
\* The endpoint of a decision.
DecisionOp(decision) == IF decision = "Approved" THEN "approve" ELSE "reject"

DecisionRequest(aid, request) == [assessment_id |-> aid, failAt |-> 0] @@ request

\* The checks of approve_assessment / reject_assessment on the row the
\* SELECT returned: none raises.
PassesChecks(d, aid, decision, request) ==
    /\ aid \in 1..Len(d.assessments)
    /\ d.assessments[aid].status \in Reviewable
    /\ ~(decision = "Rejected" /\ (request.reason = "" \/ Strip(request.reason) = ""))

\* Process w is free to take a decision.
CanDecide(w) ==
    /\ nOps + Cardinality(inflight) < MaxDecideOps
    /\ \A r \in inflight : r.w # w

\* approve_assessment / reject_assessment up to the UPDATE: a request that a
\* check refuses is answered at once.
BeginDecide(w, aid, decision, request) ==
    /\ CanDecide(w)
    /\ IF PassesChecks(Store, aid, decision, request)
       THEN /\ inflight' = inflight \cup
                    {[w |-> w, aid |-> aid, status |-> StatusOf(Store, aid),
                      decision |-> decision, request |-> request]}
            /\ UNCHANGED <<tables, last, nOps>>
       ELSE /\ Respond(DecisionOp(decision),
                       DecideAssessment(Store, aid, decision, request, 0),
                       DecisionRequest(aid, request))
            /\ UNCHANGED inflight

\* approve_assessment / reject_assessment from the UPDATE on, against the
\* store as it is by then.
FinishDecide(r) ==
    /\ Respond(DecisionOp(r.decision),
               Answer(DecisionStatements(Run(Store, 0) @@ [aid |-> r.aid, found |-> TRUE],
                                         r.aid, r.decision, r.request),
                      "Internal server error", r.decision),
               DecisionRequest(r.aid, r.request))
    /\ inflight' = inflight \ {r}

\* The full save that puts an assessment up for review.
DecideSave(p) ==
    /\ nOps + Cardinality(inflight) < MaxDecideOps
    /\ Save(p, "pi@x.com", 0)

DecidePayloads == {BasePayload, [BasePayload EXCEPT !.study_id = 2]}

NextDecide ==
    \/ \E p \in DecidePayloads : DecideSave(p)
    \/ \E w \in Workers, aid \in AssessmentIds :
          BeginDecide(w, aid, "Approved", Decision("sd@x.com", "looks good"))
    \/ \E w \in Workers, aid \in AssessmentIds, reason \in {"incomplete", ""} :
          BeginDecide(w, aid, "Rejected", Decision("sd@x.com", reason))
    \/ \E r \in inflight : FinishDecide(r)

SpecDecide == Init /\ [][NextDecide]_vars

(***************************************************************************)
(* The notification inbox: saves and approvals fill it, the two PUT        *)
(* endpoints mark its rows read.  A notification's id is its position.     *)
(***************************************************************************)
\* str.upper() on the user types of the model.
Upper(user_type) ==
    IF user_type = "pi" THEN "PI"
    ELSE IF user_type = "sd" THEN "SD"
    ELSE IF user_type = "admin" THEN "ADMIN"
    ELSE user_type

\* Mutant: the UPDATE flips the read flag of the rows ids.
SetRead_Toggle(ns, ids) ==
    [i \in 1..Len(ns) |-> IF i \in ids THEN [ns[i] EXCEPT !.read_status = ~@] ELSE ns[i]]

\* SET read_status = true on the rows ids.
SetRead(ns, ids) ==
    [i \in 1..Len(ns) |-> IF i \in ids THEN [ns[i] EXCEPT !.read_status = TRUE] ELSE ns[i]]

\* The context of a handler that looks nothing up.
Begin(d, failAt) == Run(d, failAt) @@ [found |-> FALSE, aid |-> 0]

\* UPDATE ... WHERE id = %s: the rows it matches.
MarkAsReadRows(ns, notification_id) == {notification_id} \cap (1..Len(ns))

\* The answer of mark_as_read after its UPDATE: the 404 for a rowcount of 0
\* is raised inside the service's own try block, whose except clause turns
\* every exception into a 500, and the router's except clause does so again.
MarkAsReadAnswer(c, rows) ==
    IF ~c.failed /\ rows = {}
    THEN Refused(c.d, "internal",
                 "Failed to mark notification as read: 404: Notification not found")
    ELSE Answer(c, "Failed to mark notification as read", "Notification marked as read")

\* mark_as_read below mark_notification_as_read
MarkAsRead(d, notification_id, failAt) ==
    MarkAsReadAnswer(
        Exec(Begin(d, failAt),
             [d EXCEPT !.notifications = SetRead(@, MarkAsReadRows(@, notification_id))]),
        MarkAsReadRows(d.notifications, notification_id))

\* Mutant: the UPDATE of mark_all_as_read without its target_user_type test.
MarkAllAsReadRows_AnyRole(ns, user_type) ==
    {i \in 1..Len(ns) : ~ns[i].read_status}

\* UPDATE ... WHERE target_user_type = %s AND read_status = false
MarkAllAsReadRows(ns, user_type) ==
    {i \in 1..Len(ns) : ns[i].target_user_type = user_type /\ ~ns[i].read_status}

\* The answer of mark_all_as_read: the rowcount of its UPDATE.
MarkAllAsReadAnswer(c, rows) ==
    [Answer(c, "Failed to mark all notifications as read", "Marked notifications as read")
     EXCEPT !.updated_count = IF c.failed THEN 0 ELSE Cardinality(rows)]

\* mark_all_as_read
MarkAllAsReadCounted(c, rows) ==
    MarkAllAsReadAnswer(Exec(c, [c.d EXCEPT !.notifications = SetRead(@, rows)]), rows)

\* NotificationService.mark_all_as_read(user_type), as a caller reaches it.
ServiceMarkAllAsRead(d, user_type, failAt) ==
    MarkAllAsReadCounted(Begin(d, failAt),
                         MarkAllAsReadRows(d.notifications, Upper(user_type)))

\* mark_all_notifications_as_read: the user-type validation, then the service.
MarkAllAsRead(d, user_type, failAt) ==
    IF Upper(user_type) \notin {"PI", "SD"}
    THEN Refused(d, "internal", "user_type must be 'PI' or 'SD'")
    ELSE ServiceMarkAllAsRead(d, Upper(user_type), failAt)

\* PUT /notifications/{notification_id}/read
MarkRead(notification_id, failAt) ==
    /\ Budget
    /\ Respond("markRead", MarkAsRead(Store, notification_id, failAt),
               [notification_id |-> notification_id, failAt |-> failAt])
    /\ UNCHANGED inflight

\* PUT /notifications/mark-all-read
MarkAllRead(user_type, failAt) ==
    /\ Budget
    /\ Respond("markAllRead", MarkAllAsRead(Store, user_type, failAt),
               [user_type |-> user_type, failAt |-> failAt])
    /\ UNCHANGED inflight

\* test_mark_all_read.py: the service called without the endpoint.
TestMarkAllRead(user_type) ==
    /\ Budget
    /\ Respond("test_mark_all_read", ServiceMarkAllAsRead(Store, user_type, 0),
               [user_type |-> user_type, failAt |-> 0])
    /\ UNCHANGED inflight

\* Notification ids a request can name: every row and one id that is no row.
NotificationIds == 1..(Len(notifications) + 1)
UserTypes == {"PI", "SD", "pi", "admin"}
InboxFailAts == {0, 1}

NextInbox ==
    \/ \E email \in {"pi@x.com", "SD@X.com"} : Save(BasePayload, email, 0)
    \/ \E aid \in AssessmentIds : Approve(aid, Decision("sd@x.com", "looks good"), 0)
    \/ SaveDraft(BasePayload, "pi@x.com", 0)
    \/ \E aid \in AssessmentIds : Reject(aid, Decision("sd@x.com", "incomplete"), 0)
    \/ \E id \in NotificationIds, f \in InboxFailAts : MarkRead(id, f)
    \/ \E t \in UserTypes, f \in InboxFailAts : MarkAllRead(t, f)
    \/ \E t \in {"SD", "PI", "INVALID"} : TestMarkAllRead(t)

SpecInbox == Init /\ [][NextInbox]_vars

(***************************************************************************)
(* NotificationService.get_notifications and get_unread_count below their  *)
(* endpoints.  The action_date of a notification is the time of its        *)
(* INSERT: notification i is older than notification j exactly when i < j, *)
(* so the id of a notification stands for its action_date as well.         *)
(***************************************************************************)
\* LIMIT 50
PageSize == 50

\* The query get_notifications runs: the SD query for 'SD', the PI query
\* for every other user type.
QueriedTarget(user_type) == IF Upper(user_type) = "SD" THEN "SD" ELSE "PI"

\* LEFT JOIN assessments a ON s.id = a.study_id: the assessments of the
\* study, or one row without an assessment (0) when it has none.
JoinedAssessments(d, s) ==
    IF AssessmentsOfStudy(d, s) = {} THEN {0} ELSE AssessmentsOfStudy(d, s)

\* FROM assessment_notifications n JOIN riskassessment_site_study s
\* ON n.study_id = s.id WHERE n.target_user_type = target
\* AND s.status != 'Inactive'
Listed(d, target) ==
    {i \in 1..Len(d.notifications) :
        /\ d.notifications[i].study_id \in StudyIds
        /\ d.notifications[i].target_user_type = target
        /\ StudyTable[d.notifications[i].study_id].status # "Inactive"}

\* The rows of the join: a notification once for every joined assessment.
JoinedRows(d, target) ==
    UNION {{[id |-> i, assessment_id |-> a] :
                a \in JoinedAssessments(d, d.notifications[i].study_id)} :
           i \in Listed(d, target)}

\* ORDER BY n.action_date DESC.  The rows of one notification have the same
\* action_date and SQL leaves their order open: tie ranks the assessments.
Precedes(r1, r2, tie) ==
    \/ r1.id > r2.id
    \/ /\ r1.id = r2.id
       /\ r1.assessment_id # r2.assessment_id
       /\ tie[r1.assessment_id] < tie[r2.assessment_id]

\* The rows with their place in the ORDER BY (1: the newest).
Ranked(rows, tie) ==
    {[place |-> Cardinality({o \in rows : Precedes(o, r, tie)}) + 1, row |-> r] :
        r \in rows}

\* ORDER BY ... LIMIT 50, as the list of rows the query returns.
Page(ranked) ==
    [k \in 1..Min({PageSize, Cardinality(ranked)}) |->
        (CHOOSE e \in ranked : e.place = k).row]

\* The AssessmentNotification built from a row: the column a.id comes last
\* under the name assessment_id and is the one the row dictionary keeps.
AsNotification(d, r) ==
    [id |-> r.id, assessment_id |-> r.assessment_id, action_date |-> r.id,
     read |-> d.notifications[r.id].read_status]

\* The loop over the rows of the page.
Notifications(d, ranked) ==
    [k \in DOMAIN Page(ranked) |-> AsNotification(d, Page(ranked)[k])]

\* Mutant: the unread count is the count over the whole table.
UnreadOf_Global(d, target, page) ==
    Cardinality({i \in 1..Len(d.notifications) :
                    /\ d.notifications[i].target_user_type = target
                    /\ ~d.notifications[i].read_status})

\* unread_count += 1 for every notification of the page that is not read.
UnreadOf(d, target, page) == Cardinality({k \in DOMAIN page : ~page[k].read})

\* The answer of a handler that only reads.
ReadAnswer(d, page, unread_count) ==
    [d |-> d, outcome |-> "ok", detail |-> "", aid |-> 0, found |-> FALSE,
     refused |-> FALSE, updated_count |-> 0,
     notifications |-> page, unread_count |-> unread_count]

\* A handler that only reads and raises: it answers without a page.
ReadRefused(d, detail) ==
    Refused(d, "internal", detail) @@ [notifications |-> <<>>, unread_count |-> 0]

\* notifications and unread_count of the NotificationResponse.
PageAnswer(d, target, page) == ReadAnswer(d, page, UnreadOf(d, target, page))

\* NotificationService.get_notifications: a row without an assessment has
\* no assessment_id and the AssessmentNotification refuses it.  The query
\* runs once: its rows and the page are values the loop goes over.
ServiceGetNotifications(d, user_type, tie) ==
    IF \E r \in JoinedRows(d, QueriedTarget(user_type)) : r.assessment_id = 0
    THEN ReadRefused(d, "Failed to get notifications")
    ELSE CHOOSE answer \in
            {PageAnswer(d, QueriedTarget(user_type), page) :
                page \in {Notifications(d, ranked) :
                    ranked \in {Ranked(JoinedRows(d, QueriedTarget(user_type)), tie)}}} :
            TRUE

\* get_notifications of the router: the user-type validation, whose 400 the
\* except clause turns into a 500, then the service.
GetNotificationsAnswer(d, user_type, tie) ==
    IF Upper(user_type) \notin {"PI", "SD"}
    THEN ReadRefused(d, "user_type must be 'PI' or 'SD'")
    ELSE ServiceGetNotifications(d, Upper(user_type), tie)

\* NotificationService.get_unread_count: SELECT COUNT(*) ... WHERE
\* target_user_type = %s AND read_status = false
ServiceGetUnreadCount(d, user_type) ==
    ReadAnswer(d, <<>>,
               Cardinality({i \in 1..Len(d.notifications) :
                               /\ d.notifications[i].target_user_type = Upper(user_type)
                               /\ ~d.notifications[i].read_status}))

\* get_unread_count of the router
GetUnreadCountAnswer(d, user_type) ==
    IF Upper(user_type) \notin {"PI", "SD"}
    THEN ReadRefused(d, "user_type must be 'PI' or 'SD'")
    ELSE ServiceGetUnreadCount(d, Upper(user_type))

\* The answer r of a handler that only reads: the store stays and the
\* request does not count against the budget of requests.
RespondRead(op, r, req) ==
    /\ last' = Outcome(op, r, req, "none")
                 @@ [notifications |-> r.notifications, unread_count |-> r.unread_count]
    /\ UNCHANGED <<tables, nOps, inflight>>

\* The orders SQL may give the rows of one notification.
Ties == Permutations(1..Len(assessments))

\* GET /notifications
GetNotifications(user_type, tie) ==
    /\ ~last.refused
    /\ RespondRead("getNotifications", GetNotificationsAnswer(Store, user_type, tie),
                   [user_type |-> user_type, failAt |-> 0])

\* GET /notifications/unread-count
GetUnreadCount(user_type) ==
    /\ ~last.refused
    /\ RespondRead("getUnreadCount", GetUnreadCountAnswer(Store, user_type),
                   [user_type |-> user_type, failAt |-> 0])

(***************************************************************************)
(* Specification for the notification list: the Principal Investigator     *)
(* saves study 1 until the inbox of the Site Director is longer than a     *)
(* page; the other requests come among the first FreeOps requests and      *)
(* after the first FilledAt ones.                                          *)
(***************************************************************************)
MaxListOps == 52
FreeOps == 1
FilledAt == 50

ListBudget == nOps < MaxListOps /\ ~last.refused
Free == nOps < FreeOps \/ nOps >= FilledAt

ListSave(p, email) ==
    /\ ListBudget
    /\ Respond("save", SaveAssessment(Store, p, User(email), 0),
               [payload |-> p, email |-> email, failAt |-> 0])
    /\ UNCHANGED inflight

ListMarkRead(notification_id) ==
    /\ ListBudget
    /\ Free
    /\ Respond("markRead", MarkAsRead(Store, notification_id, 0),
               [notification_id |-> notification_id, failAt |-> 0])
    /\ UNCHANGED inflight

NextList ==
    \/ ListSave(BasePayload, "pi@x.com")
    \/ Free /\ ListSave(BasePayload, "SD@X.com")
    \/ Free /\ ListSave([BasePayload EXCEPT !.study_id = 2], "pi@x.com")
    \/ \E id \in {1, Len(notifications)} : ListMarkRead(id)
    \/ \E t \in UserTypes, tie \in Ties : GetNotifications(t, tie)
    \/ \E t \in UserTypes : GetUnreadCount(t)

SpecList == Init /\ [][NextList]_vars

(***************************************************************************)
(* services/audit_service.py below api/v1/endpoints/audit_router.py.  An   *)
(* absent field_name is NULL and an absent risk_factor_id or limit is 0;   *)
(* the changed_at of an entry is the time of its INSERT, so the id of an   *)
(* entry stands for it.                                                    *)
(***************************************************************************)
\* WHERE aat.assessment_id = %s and aat.field_name in ('Severity', 'Likelihood')
BaseQuery(d, assessment_id) ==
    {i \in 1..Len(d.audit_trail) :
        /\ d.audit_trail[i].assessment_id = assessment_id
        /\ d.audit_trail[i].field_name \in {"Severity", "Likelihood"}}

\* The filters added for a field_name and a risk_factor_id that are given.
Filtered(d, rows, field_name, risk_factor_id) ==
    {i \in rows :
        /\ field_name \notin {NULL, ""} => d.audit_trail[i].field_name = field_name
        /\ risk_factor_id # 0 => d.audit_trail[i].risk_factor_id = risk_factor_id}

\* ORDER BY aat.changed_at DESC LIMIT %s, and the formatted rows.
Formatted(d, rows, limit) ==
    [k \in 1..Min({limit, Cardinality(rows)}) |->
        [id |-> CHOOSE i \in rows : Cardinality({j \in rows : j > i}) = k - 1,
         field |-> d.audit_trail[CHOOSE i \in rows :
                                    Cardinality({j \in rows : j > i}) = k - 1].field_name,
         risk_factor_id |-> d.audit_trail[CHOOSE i \in rows :
                                    Cardinality({j \in rows : j > i}) = k - 1].risk_factor_id]]

\* The answer of an audit query: the store as it was and the rows.
AuditAnswer(d, rows) ==
    [d |-> d, outcome |-> "ok", detail |-> "", aid |-> 0, found |-> FALSE,
     refused |-> FALSE, updated_count |-> 0, audit_trail |-> rows]

\* An audit query that raises.
AuditRefused(d, detail) == Refused(d, "internal", detail) @@ [audit_trail |-> <<>>]

\* AuditService.get_audit_trail_for_assessment
GetAuditTrailForAssessment(d, assessment_id, field_name, risk_factor_id, limit) ==
    AuditAnswer(d, Formatted(d, Filtered(d, BaseQuery(d, assessment_id),
                                         field_name, risk_factor_id),
                             limit))

\* AuditService.get_severity_changes, get_risk_score_changes,
\* get_risk_level_changes and get_risk_factor_audit_trail
GetSeverityChanges(d, assessment_id, limit) ==
    GetAuditTrailForAssessment(d, assessment_id, "Severity", 0, limit)
GetRiskScoreChanges(d, assessment_id, limit) ==
    GetAuditTrailForAssessment(d, assessment_id, "Risk Score", 0, limit)
GetRiskLevelChanges(d, assessment_id, limit) ==
    GetAuditTrailForAssessment(d, assessment_id, "Risk Level", 0, limit)
GetRiskFactorAuditTrail(d, assessment_id, risk_factor_id, limit) ==
    GetAuditTrailForAssessment(d, assessment_id, NULL, risk_factor_id, limit)

\* The default of the limit parameter.
DefaultLimit == 100

\* The methods of AuditService and the keyword arguments each accepts.
AuditMethods ==
    [get_audit_trail_for_assessment |->
        {"assessment_id", "field_name", "risk_factor_id", "limit"},
     get_severity_changes |-> {"assessment_id", "limit"},
     get_risk_score_changes |-> {"assessment_id", "limit"},
     get_risk_level_changes |-> {"assessment_id", "limit"},
     get_risk_factor_audit_trail |-> {"assessment_id", "risk_factor_id", "limit"}]

\* What a method returns for the arguments of a call.
AuditMethod(d, method, a) ==
    IF method = "get_audit_trail_for_assessment"
    THEN GetAuditTrailForAssessment(d, a.assessment_id, a.field_name, a.risk_factor_id, a.limit)
    ELSE IF method = "get_severity_changes" THEN GetSeverityChanges(d, a.assessment_id, a.limit)
    ELSE IF method = "get_risk_score_changes" THEN GetRiskScoreChanges(d, a.assessment_id, a.limit)
    ELSE IF method = "get_risk_level_changes" THEN GetRiskLevelChanges(d, a.assessment_id, a.limit)
    ELSE GetRiskFactorAuditTrail(d, a.assessment_id, a.risk_factor_id, a.limit)

\* audit_service.<method>(**keywords) as an endpoint calls it: an attribute
\* the service does not have raises AttributeError, a keyword the method
\* does not accept raises TypeError, and the endpoint's except clause
\* answers either with a 500.
CallAuditService(d, method, keywords, a) ==
    IF method \notin DOMAIN AuditMethods
    THEN AuditRefused(d, "'AuditService' object has no attribute")
    ELSE IF ~(keywords \subseteq AuditMethods[method])
    THEN AuditRefused(d, "got an unexpected keyword argument")
    ELSE AuditMethod(d, method, a)

\* The calls of the endpoints of audit_router.py.
EndpointCall ==
    [auditTrail |->
        [method |-> "get_audit_trail_for_assessment",
         keywords |-> {"assessment_id", "field_name", "risk_factor_id", "limit"}],
     severityChanges |->
        [method |-> "get_severity_changes", keywords |-> {"assessment_id", "risk_factor_id"}],
     riskScoreChanges |->
        [method |-> "get_risk_score_changes", keywords |-> {"assessment_id", "risk_factor_id"}],
     riskLevelChanges |->
        [method |-> "get_risk_level_changes", keywords |-> {"assessment_id", "risk_factor_id"}],
     riskFactorAuditTrail |->
        [method |-> "get_audit_trail_for_risk_factor",
         keywords |-> {"assessment_id", "risk_factor_id"}]]

\* An endpoint of audit_router.py on the parameters a of the request.
AuditEndpoint(d, op, a) ==
    CallAuditService(d, EndpointCall[op].method, EndpointCall[op].keywords, a)

\* GET /audit-trail/{assessment_id} and the endpoints below it: reads, which
\* leave the store and do not count against the budget of requests.
AuditQuery(op, a) ==
    /\ ~last.refused
    /\ last' = Outcome(op, AuditEndpoint(Store, op, a), a, "none")
                 @@ [audit_trail |-> AuditEndpoint(Store, op, a).audit_trail]
    /\ UNCHANGED <<tables, nOps, inflight>>

(***************************************************************************)
(* Specification for the audit queries: saves of study 1 that change the   *)
(* risk scores, and the queries on the trail they leave.                   *)
(***************************************************************************)
AuditPayloads ==
    {[BasePayload EXCEPT !.risk_scores = l] :
        l \in {<<Score(1, 1)>>, <<Score(1, 2)>>, <<ScoreOf(1, 2, 2)>>,
               <<Score(1, 1), Score(2, 1)>>, <<Score(1, 2), Score(2, 2)>>}}

\* The parameters of a query; the endpoints for one field take no limit.
AuditParams(op) ==
    {[assessment_id |-> aid, field_name |-> f, risk_factor_id |-> rf, limit |-> l,
      failAt |-> 0] :
        aid \in AssessmentIds,
        f \in IF op = "auditTrail" THEN {NULL, "Severity", "Risk Score"} ELSE {NULL},
        rf \in IF op = "riskFactorAuditTrail" THEN {1, 2} ELSE {0, 1},
        l \in IF op = "auditTrail" THEN {1, DefaultLimit} ELSE {DefaultLimit}}

NextAudit ==
    \/ \E p \in AuditPayloads : Save(p, "pi@x.com", 0)
    \/ \E a \in AuditParams("auditTrail") : AuditQuery("auditTrail", a)
    \/ \E a \in AuditParams("severityChanges") : AuditQuery("severityChanges", a)
    \/ \E a \in AuditParams("riskScoreChanges") : AuditQuery("riskScoreChanges", a)
    \/ \E a \in AuditParams("riskLevelChanges") : AuditQuery("riskLevelChanges", a)
    \/ \E a \in AuditParams("riskFactorAuditTrail") : AuditQuery("riskFactorAuditTrail", a)

SpecAudit == Init /\ [][NextAudit]_vars

(***************************************************************************)
(* AssessmentService.get_dashboard_stats: the counts of approved and of    *)
(* rejected assessments, taken from the approval records.                  *)
(***************************************************************************)
\* The WHERE clause on the study for the user's role.
StudiesOfUser(user_email, user_type) ==
    {s \in StudyIds :
        Lower(IF user_type = "PI" THEN StudyTable[s].principal_investigator_email
              ELSE StudyTable[s].site_director_email) = Lower(user_email)}

\* SELECT COUNT(DISTINCT a.id) FROM riskassessment_site_study s
\* INNER JOIN assessments a ON s.id = a.study_id
\* INNER JOIN assessment_approvals aa ON a.id = aa.assessment_id
\* WHERE <study of the user> AND LOWER(aa.action) = action
CountByApproval(d, user_email, user_type, action) ==
    Cardinality({a \in 1..Len(d.assessments) :
                    /\ d.assessments[a].study_id \in StudiesOfUser(user_email, user_type)
                    /\ \E k \in 1..Len(d.approvals) :
                            /\ d.approvals[k].assessment_id = a
                            /\ d.approvals[k].action = action})

TotalApprovedAssessments(d, user_email, user_type) ==
    CountByApproval(d, user_email, user_type, "Approved")
TotalRejectedAssessments(d, user_email, user_type) ==
    CountByApproval(d, user_email, user_type, "Rejected")

(***************************************************************************)
(* Specification for the generated codes: first saves and first drafts of  *)
(* the studies of the catalog, one request at a time, on two assessment    *)
(* dates, the first of them in both of the accepted notations.             *)
(***************************************************************************)
Date1Compact == <<"2", "0", "2", "5", "0", "1", "1", "0">>
Date2 == <<"2", "0", "2", "5", "-", "0", "2", "-", "2", "0">>

CodeStudies == {1, 2, 4, 5, 6}
CodePayloads ==
    {[BasePayload EXCEPT !.study_id = s, !.assessment_date = dt] :
        s \in CodeStudies, dt \in {Date1, Date1Compact, Date2}}
CodeDraftPayloads == {[BasePayload EXCEPT !.study_id = s] : s \in CodeStudies}

NextCode ==
    \/ \E p \in CodePayloads : Save(p, "pi@x.com", 0)
    \/ \E p \in CodeDraftPayloads : SaveDraft(p, "pi@x.com", 0)

SpecCode == Init /\ [][NextCode]_vars

(***************************************************************************)
(* Properties.                                                             *)
(***************************************************************************)
StoreNext == [assessments |-> assessments', risks |-> risks', plans |-> plans',
              dashboards |-> dashboards', summary_comments |-> summary_comments',
              section_comments |-> section_comments', approvals |-> approvals',
              timeline |-> timeline', notifications |-> notifications',
              audit_trail |-> audit_trail', user_context |-> user_context']

\* The "Initial Assessment" entries of a timeline for study s.
InitialEntries(tl, s) ==
    SelectSeq(tl, LAMBDA e : e.study_id = s /\ e.schedule_type.label = "Initial Assessment")

\* C1: for a study that has no assessment, a successful save creates exactly
\* one Assessment row for it, with status "In Progress", and appends exactly
\* one TimelineEntry, labelled "Initial Assessment", for it.
C1_FirstSaveCreates ==
    [][(/\ last'.op = "save"
        /\ last'.outcome = "ok"
        /\ AssessmentsOfStudy(Store, last'.req.payload.study_id) = {})
       => LET s == last'.req.payload.study_id
          IN  /\ Cardinality(AssessmentsOfStudy(StoreNext, s)) = 1
              /\ \A i \in AssessmentsOfStudy(StoreNext, s) :
                    assessments'[i].status = "In Progress"
              /\ Len(timeline') = Len(timeline) + 1
              /\ Len(InitialEntries(timeline', s)) = Len(InitialEntries(timeline, s)) + 1
      ]_vars

\* C2: in sequential execution no study ever has two Assessment rows; after
\* a successful save the study has exactly one, and when the save found an
\* existing assessment its status is "Pending Review" whatever it was before.
C2_SaveUpserts ==
    /\ \A s \in StudyIds : Cardinality(AssessmentsOfStudy(Store, s)) <= 1
    /\ (last.op = "save" /\ last.outcome = "ok")
       => /\ Cardinality(AssessmentsOfStudy(Store, last.req.payload.study_id)) = 1
          /\ last.found => assessments[last.aid].status = "Pending Review"

\* A save has reset an approved assessment to "Pending Review".
C2_Witness ==
    /\ last.op = "save" /\ last.outcome = "ok" /\ last.found
    /\ last.before = "Approved"
    /\ assessments[last.aid].status = "Pending Review"

\* C3: approve (reject with a non-blank reason) on an assessment in
\* "Pending Review" or "In Progress" succeeds, sets the status to "Approved"
\* ("Rejected") and inserts one ApprovalRecord with that action under the name
\* and e-mail given in the request.
C3_DecisionRecorded ==
    [][(/\ last'.op \in {"approve", "reject"}
        /\ last'.before \in {"Pending Review", "In Progress"}
        /\ last'.op = "reject" => last'.req.reason \notin {"", " ", "  "})
       => LET aid == last'.req.assessment_id
              decision == IF last'.op = "approve" THEN "Approved" ELSE "Rejected"
          IN  /\ last'.outcome = "ok"
              /\ assessments'[aid].status = decision
              /\ approvals' = Append(approvals,
                    [assessment_id |-> aid, action |-> decision,
                     action_by_name |-> last'.req.action_by_name,
                     action_by_email |-> last'.req.action_by_email,
                     reason |-> last'.req.reason])
      ]_vars

\* A rejection by a user who is not the study's Site Director of record is
\* recorded under that user.
C3_Witness ==
    /\ last.op = "reject" /\ last.outcome = "ok"
    /\ last.req.action_by_email = "other@x.com"
    /\ StudyTable[assessments[last.aid].study_id].site_director_email # "other@x.com"
    /\ assessments[last.aid].status = "Rejected"
    /\ approvals[Len(approvals)].action = "Rejected"
    /\ approvals[Len(approvals)].action_by_email = "other@x.com"

\* C4: approve and reject answer not-found for an id that is no assessment
\* and a conflict naming the current status when that status is neither
\* "Pending Review" nor "In Progress"; either way no table changes.
C4_DecisionRefused ==
    [][(last'.op \in {"approve", "reject"})
       => /\ last'.before = "none"
             => last'.outcome = "not_found" /\ UNCHANGED tables
          /\ last'.before \notin {"none", "Pending Review", "In Progress"}
             => /\ last'.outcome = "conflict"
                /\ last'.detail = last'.before
                /\ UNCHANGED tables
      ]_vars

\* An approve of an already rejected assessment was refused with a conflict.
C4_Witness ==
    /\ last.op = "approve" /\ last.outcome = "conflict"
    /\ last.detail = "Rejected"
    /\ assessments[last.req.assessment_id].status = "Rejected"

\* The reasons that are empty once surrounding whitespace is removed.
BlankReasons == {"", " ", "  "}

\* C5 (as stated): reject answers with the validation error whenever the
\* reason is empty or whitespace only, and then the assessment status, the
\* ApprovalRecords and the Notifications are unchanged.
C5_BlankReasonAlwaysValidation ==
    [][(last'.op = "reject" /\ last'.req.reason \in BlankReasons)
       => /\ last'.outcome = "validation"
          /\ UNCHANGED <<assessments, approvals, notifications>>
      ]_vars

\* C5 (amended): a reject with an empty or whitespace-only reason never
\* changes a table; it answers not-found for a missing id, the conflict error
\* for a status other than "Pending Review" and "In Progress", and the
\* validation error otherwise.
C5_BlankReasonRefused ==
    [][(last'.op = "reject" /\ last'.req.reason \in BlankReasons)
       => /\ UNCHANGED tables
          /\ last'.outcome =
                IF last'.before = "none" THEN "not_found"
                ELSE IF last'.before \notin {"Pending Review", "In Progress"}
                     THEN "conflict"
                     ELSE "validation"
      ]_vars

\* A whitespace-only reason was refused on an assessment awaiting review.
C5_Witness ==
    /\ last.op = "reject" /\ last.outcome = "validation"
    /\ last.req.reason = " "
    /\ last.before = "Pending Review"
    /\ assessments[last.req.assessment_id].status = "Pending Review"

\* C6: in every reachable state every assessment has at most one
\* ApprovalRecord.
C6_OneApprovalPerAssessment ==
    \A aid \in 1..Len(assessments) : Len(RowsOf(approvals, aid)) <= 1

\* C7: right after a successful approve the assessment has exactly one
\* ApprovalRecord, with action "Approved"; earlier records are gone.
C7_ApproveLeavesOneRecord ==
    (last.op = "approve" /\ last.outcome = "ok")
    => /\ Len(RowsOf(approvals, last.aid)) = 1
       /\ RowsOf(approvals, last.aid)[1].action = "Approved"

\* C8: when a store statement fails part-way through a save, none of the
\* writes the save made before the failure remain: every table is as it was
\* before the call.
C8_SaveAtomic ==
    [][(last'.op = "save" /\ last'.outcome = "internal") => UNCHANGED tables]_vars

LastScoreFor(risk_scores, f) ==
    Max({i \in 1..Len(risk_scores) : risk_scores[i].risk_factor_id = f})

\* C10: no two RiskScore rows share (assessment_id, risk_factor_id), and
\* after a successful save or saveDraft the row of every factor of the payload
\* holds the values of the factor's last score in the payload.
C10_OneRiskRowPerFactor ==
    /\ \A i, j \in 1..Len(risks) :
          (/\ risks[i].assessment_id = risks[j].assessment_id
           /\ risks[i].risk_factor_id = risks[j].risk_factor_id) => i = j
    /\ (last.op \in {"save", "saveDraft"} /\ last.outcome = "ok")
       => LET scores == last.req.payload.risk_scores
          IN  \A k \in 1..Len(scores) :
                 \E i \in 1..Len(risks) :
                    /\ risks[i].assessment_id = last.aid
                    /\ risks[i].risk_factor_id = scores[k].risk_factor_id
                    /\ risks[i].severity =
                          scores[LastScoreFor(scores, scores[k].risk_factor_id)].severity

\* One payload listed a factor twice and the single row holds the second
\* score, next to the row of another factor.
C10_Witness ==
    /\ last.op \in {"save", "saveDraft"} /\ last.outcome = "ok"
    /\ LET scores == last.req.payload.risk_scores
       IN  /\ Len(scores) = 2
           /\ scores[1].risk_factor_id = scores[2].risk_factor_id
           /\ scores[1].severity # scores[2].severity
           /\ \E i \in 1..Len(risks) :
                 /\ risks[i].assessment_id = last.aid
                 /\ risks[i].risk_factor_id = scores[2].risk_factor_id
                 /\ risks[i].severity = scores[2].severity
    /\ Len(RowsOf(risks, last.aid)) = 2

\* C11: a successful save on a study that already has an assessment appends
\* no TimelineEntry when the payload's monitoring_schedule equals the schedule
\* stored before the save, and otherwise appends exactly one entry, labelled
\* "Schedule Update: {new schedule}", whatever the stored value was.
C11_ScheduleTimeline ==
    [][(last'.op = "save" /\ last'.outcome = "ok" /\ last'.found)
       => LET new == last'.req.payload.monitoring_schedule
              old == assessments[last'.aid].monitoring_schedule
          IN  IF new = old
              THEN timeline' = timeline
              ELSE /\ Len(timeline') = Len(timeline) + 1
                   /\ SubSeq(timeline', 1, Len(timeline)) = timeline
                   /\ timeline'[Len(timeline')].assessment_id = last'.aid
                   /\ timeline'[Len(timeline')].schedule_type =
                         [label |-> "Schedule Update", schedule |-> new]
      ]_vars

\* C12: no two consecutive TimelineEntries of one assessment record the same
\* monitoring-schedule value, also when drafts are saved in between.
C12_NoRepeatedSchedule ==
    \A aid \in 1..Len(assessments) :
        LET entries == RowsOf(timeline, aid)
        IN  \A i \in 1..(Len(entries) - 1) :
               ~(/\ entries[i].schedule_type.label = "Schedule Update"
                 /\ entries[i + 1].schedule_type = entries[i].schedule_type)

\* C13: at most one Assessment row exists per study in every reachable
\* state, also when save or saveDraft requests for a study without an
\* assessment interleave between the existence check and the insert.
C13_OneAssessmentPerStudyRacing ==
    \A s \in StudyIds :
        \A i, j \in AssessmentsOfStudy(Store, s) : i = j

\* The notification a save by the user of e-mail address email is to create
\* for assessment aid of study s: for the Principal Investigator when the
\* user is the study's Site Director and not its Principal Investigator, for
\* the Site Director otherwise.
IsSaveNotification(n, aid, s, email) ==
    LET bySD == /\ Lower(email) = StudyTable[s].site_director_email
                /\ Lower(email) # StudyTable[s].principal_investigator_email
    IN  /\ n.assessment_id = aid
        /\ n.study_id = s
        /\ n.read_status = FALSE
        /\ n.target_user_type = IF bySD THEN "PI" ELSE "SD"
        /\ n.action = IF bySD THEN "SD Created" ELSE "Initial Save"

\* C14: every successful save appends exactly one unread Notification, for
\* the SD with action "Initial Save" or, when the actor is the study's SD,
\* for the PI with action "SD Created"; repeated saves notify again.
C14_EverySaveNotifies ==
    [][(last'.op = "save" /\ last'.outcome = "ok")
       => /\ Len(notifications') = Len(notifications) + 1
          /\ SubSeq(notifications', 1, Len(notifications)) = notifications
          /\ IsSaveNotification(notifications'[Len(notifications')], last'.aid,
                                last'.req.payload.study_id, last'.req.email)
      ]_vars

\* C15: every successful approve or reject appends exactly one unread
\* Notification for the PI with the decision as its action, whatever the
\* reason and the status of the study.
C15_EveryDecisionNotifies ==
    [][(last'.op \in {"approve", "reject"} /\ last'.outcome = "ok")
       => /\ Len(notifications') = Len(notifications) + 1
          /\ SubSeq(notifications', 1, Len(notifications)) = notifications
          /\ LET n == notifications'[Len(notifications')]
             IN  /\ n.assessment_id = last'.aid
                 /\ n.read_status = FALSE
                 /\ n.target_user_type = "PI"
                 /\ n.action = IF last'.op = "approve" THEN "Approved" ELSE "Rejected"
      ]_vars

\* The context of a save of payload p against store d, when no statement is
\* refused, before and after the timeline tracker ...
BeforeTimeline(d, p, user) ==
    SaveSummaryComments(
        SaveDashboard(
            SavePlans(SaveRisks(SaveHeader(Lookup(d, p.study_id, 0), p, user), p), p),
            p),
        p)
AfterTimeline(d, p, user) == SaveTimeline(BeforeTimeline(d, p, user), p, user)

\* ... and before and after the notification.
BeforeNotification(d, p, user) ==
    SaveApproval(SaveSectionComments(AfterTimeline(d, p, user), p), p)
AfterNotification(d, p, user) ==
    SaveNotification(BeforeNotification(d, p, user), p, user)

\* The ordinals of the write statements that the save issues inside the
\* timeline tracker and inside the notification fan-out.
SideEffectStatements(d, p, user) ==
    {AfterTimeline(d, p, user).n : x \in
        {y \in {1} : AfterTimeline(d, p, user).n > BeforeTimeline(d, p, user).n}}
    \cup
    {AfterNotification(d, p, user).n : x \in
        {y \in {1} : AfterNotification(d, p, user).n > BeforeNotification(d, p, user).n}}

\* C16: when the statement the store refuses during a save lies inside the
\* timeline tracker or the notification fan-out, the save still succeeds and
\* the header, the risk scores, the child collections and the ApprovalRecord
\* are the ones a save without the refusal leaves.
C16_SideEffectFailuresNonFatal ==
    [][(/\ last'.op = "save"
        /\ ~last'.refused
        /\ last'.req.failAt \in
              SideEffectStatements(Store, last'.req.payload,
                                   TokenUser(User(last'.req.email))))
       => LET good == SaveAssessment(Store, last'.req.payload,
                                     User(last'.req.email), 0).d
          IN  /\ last'.outcome = "ok"
              /\ assessments' = good.assessments
              /\ risks' = good.risks
              /\ plans' = good.plans
              /\ dashboards' = good.dashboards
              /\ summary_comments' = good.summary_comments
              /\ section_comments' = good.section_comments
              /\ approvals' = good.approvals
      ]_vars

\* The third statement of a first save with one risk score, the INSERT of
\* the timeline entry, was refused: the save succeeded and left the
\* assessment, its risk score and its ApprovalRecord, but no timeline entry.
C16_Witness ==
    /\ last.op = "save" /\ last.outcome = "ok" /\ ~last.found
    /\ last.req.payload = BasePayload
    /\ last.req.failAt = 3
    /\ RowsOf(timeline, last.aid) = <<>>
    /\ Len(RowsOf(risks, last.aid)) = 1
    /\ Len(RowsOf(approvals, last.aid)) = 1
    /\ Len(RowsOf(notifications, last.aid)) = 1

\* The unread notifications of a role.
UnreadFor(ns, role) ==
    {i \in 1..Len(ns) : ns[i].target_user_type = role /\ ns[i].read_status = FALSE}

\* C17: a successful markAllRead(role) leaves no unread notification whose
\* target is the role, returns the number of the role's notifications that
\* were unread before it, and returns 0 when it follows a successful
\* markAllRead of the same role.
C17_MarkAllReadCounts ==
    [][(last'.op = "markAllRead" /\ last'.outcome = "ok")
       => LET role == Upper(last'.req.user_type)
          IN  /\ UnreadFor(notifications', role) = {}
              /\ last'.updated_count = Cardinality(UnreadFor(notifications, role))
              /\ (/\ last.op = "markAllRead" /\ last.outcome = "ok"
                  /\ Upper(last.req.user_type) = role)
                 => last'.updated_count = 0
      ]_vars

\* markAllRead of one role has flipped at least one notification while a
\* notification of the other role stays unread.
C17_Witness ==
    /\ last.op = "markAllRead" /\ last.outcome = "ok"
    /\ last.updated_count >= 1
    /\ \E i \in 1..Len(notifications) :
          /\ notifications[i].target_user_type # Upper(last.req.user_type)
          /\ ~notifications[i].read_status

\* C18: markRead(id), when the store refuses nothing, succeeds on every
\* existing notification, read or unread, leaving it read and the others as
\* they were (so a second call changes nothing), and on an id that is no
\* notification it answers "not found" and changes nothing.
C18_MarkReadIdempotent ==
    [][(last'.op = "markRead" /\ last'.req.failAt = 0)
       => LET id == last'.req.notification_id
          IN  IF id \in 1..Len(notifications)
              THEN /\ last'.outcome = "ok"
                   /\ Len(notifications') = Len(notifications)
                   /\ notifications'[id].read_status = TRUE
                   /\ \A i \in 1..Len(notifications) :
                         (i # id \/ notifications[i].read_status = TRUE)
                            => notifications'[i] = notifications[i]
              ELSE /\ last'.outcome = "not_found"
                   /\ notifications' = notifications
      ]_vars

\* The rows a list of payload rows becomes when stored for assessment aid.
StoredAs(aid, rows) == [i \in 1..Len(rows) |-> [assessment_id |-> aid] @@ rows[i]]

\* A draft has left table t of assessment aid untouched when the payload's
\* list is empty, and holding the payload's rows when it is not.
PartialUpdate(before, after, aid, rows) ==
    IF rows = <<>> THEN RowsOf(after, aid) = RowsOf(before, aid)
    ELSE RowsOf(after, aid) = StoredAs(aid, rows)

\* C19: after a successful saveDraft each child collection of the
\* assessment is unchanged when the payload's collection is empty, and
\* consists of all the payload's rows when it is not.
C19_DraftReplacesWithPayloadRows ==
    [][(last'.op = "saveDraft" /\ last'.outcome = "ok")
       => LET p == last'.req.payload
              aid == last'.aid
          IN  /\ PartialUpdate(plans, plans', aid, p.risk_mitigation_plans)
              /\ PartialUpdate(dashboards, dashboards', aid, p.risk_dashboard)
              /\ PartialUpdate(summary_comments, summary_comments', aid,
                               p.summary_comments)
              /\ PartialUpdate(section_comments, section_comments', aid,
                               p.section_comments)
      ]_vars

\* C20: a saveDraft, whatever its outcome, leaves the notifications, the
\* ApprovalRecords and the timeline as they were, and every assessment whose
\* status was "In Progress" still has that status.
C20_DraftHasNoSideEffects ==
    [][(last'.op = "saveDraft")
       => /\ notifications' = notifications
          /\ approvals' = approvals
          /\ timeline' = timeline
          /\ Len(assessments') >= Len(assessments)
          /\ \A i \in 1..Len(assessments) :
                assessments[i].status = "In Progress"
                   => assessments'[i].status = "In Progress"
      ]_vars

\* A draft was saved over an "In Progress" assessment that has an
\* ApprovalRecord, a timeline entry and a notification.
C20_Witness ==
    /\ last.op = "saveDraft" /\ last.outcome = "ok"
    /\ last.found /\ last.before = "In Progress"
    /\ assessments[last.aid].status = "In Progress"
    /\ RowsOf(approvals, last.aid) # <<>>
    /\ RowsOf(timeline, last.aid) # <<>>
    /\ RowsOf(notifications, last.aid) # <<>>

\* C21: after a successful save on a study that had an assessment, the
\* stored mitigation plans, dashboard, summary comments and section comments
\* of the assessment are exactly the payload's rows, in the payload's order;
\* an empty collection leaves no stored row.
C21_SaveReplacesChildren ==
    [][(last'.op = "save" /\ last'.outcome = "ok" /\ last'.found)
       => LET p == last'.req.payload
              aid == last'.aid
          IN  /\ RowsOf(plans', aid) = StoredAs(aid, p.risk_mitigation_plans)
              /\ RowsOf(dashboards', aid) = StoredAs(aid, p.risk_dashboard)
              /\ RowsOf(summary_comments', aid) = StoredAs(aid, p.summary_comments)
              /\ RowsOf(section_comments', aid) = StoredAs(aid, p.section_comments)
      ]_vars

\* A save without child collections over an existing "In Progress"
\* assessment has left no plan, dashboard or comment stored for it.
C21_Witness ==
    /\ last.op = "save" /\ last.outcome = "ok" /\ last.found
    /\ last.before = "In Progress"
    /\ last.req.payload.risk_mitigation_plans = <<>>
    /\ last.req.payload.section_comments = <<>>
    /\ RowsOf(plans, last.aid) = <<>>
    /\ RowsOf(dashboards, last.aid) = <<>>
    /\ RowsOf(summary_comments, last.aid) = <<>>
    /\ RowsOf(section_comments, last.aid) = <<>>

\* C22: an approve or a reject, whatever its outcome, leaves the risk scores,
\* the mitigation plans, the dashboards, the comments and the timeline as
\* they were, adds or removes no assessment, and changes nothing of an
\* assessment but the status and the updated-by fields of the one it names.
C22_DecisionFrame ==
    [][(last'.op \in {"approve", "reject"})
       => /\ risks' = risks
          /\ plans' = plans
          /\ dashboards' = dashboards
          /\ summary_comments' = summary_comments
          /\ section_comments' = section_comments
          /\ timeline' = timeline
          /\ Len(assessments') = Len(assessments)
          /\ \A i \in 1..Len(assessments) :
                IF i = last'.req.assessment_id
                THEN [assessments'[i] EXCEPT
                         !.status = assessments[i].status,
                         !.updated_by_email = assessments[i].updated_by_email]
                     = assessments[i]
                ELSE assessments'[i] = assessments[i]
      ]_vars

\* An assessment that has a risk score, a plan, a dashboard, comments and a
\* timeline entry has been approved or rejected.
C22_Witness ==
    /\ last.op \in {"approve", "reject"} /\ last.outcome = "ok"
    /\ assessments[last.aid].status \in {"Approved", "Rejected"}
    /\ RowsOf(risks, last.aid) # <<>>
    /\ RowsOf(plans, last.aid) # <<>>
    /\ RowsOf(dashboards, last.aid) # <<>>
    /\ RowsOf(summary_comments, last.aid) # <<>>
    /\ RowsOf(section_comments, last.aid) # <<>>
    /\ RowsOf(timeline, last.aid) # <<>>

NewAuditEntries == SubSeq(audit_trail', Len(audit_trail) + 1, Len(audit_trail'))

\* The entries among es for one risk factor of an assessment and one field.
EntriesFor(es, aid, f, field_name) ==
    SelectSeq(es, LAMBDA e : /\ e.assessment_id = aid
                             /\ e.risk_factor_id = f
                             /\ e.field_name = field_name)

\* The text of an audited column, column by column.
TextOf(row) ==
    [Severity |-> ToString(row.severity), Likelihood |-> ToString(row.likelihood),
     RiskScore |-> ToString(row.risk_score), RiskLevel |-> row.risk_level]

\* What the trail must hold for a row that went from old to new: one entry
\* with the old and the new text when they differ, none when they agree.
AuditedOnce(es, old, new, field_name, key) ==
    LET mine == EntriesFor(es, old.assessment_id, old.risk_factor_id, field_name)
    IN  IF TextOf(old)[key] = TextOf(new)[key] THEN mine = <<>>
        ELSE /\ Len(mine) = 1
             /\ mine[1].old_value = TextOf(old)[key]
             /\ mine[1].new_value = TextOf(new)[key]

\* The payload names no risk factor twice.
DistinctFactors(scores) ==
    \A i, j \in 1..Len(scores) :
        scores[i].risk_factor_id = scores[j].risk_factor_id => i = j

\* C24: a successful save or saveDraft only appends to the audit trail; every
\* entry it appends records a value that changed and carries the name and
\* the e-mail of the request's user; and, when the payload names each risk
\* factor once, it appends none for a risk score it inserts, and for every
\* stored risk score and every audited field exactly one entry with the old
\* and new value when the value changed and none when it did not.
C24_AuditTrailRecordsChanges ==
    [][(last'.op \in {"save", "saveDraft"} /\ last'.outcome = "ok")
       => /\ Len(audit_trail') >= Len(audit_trail)
          /\ SubSeq(audit_trail', 1, Len(audit_trail)) = audit_trail
          /\ \A k \in 1..Len(NewAuditEntries) :
                /\ NewAuditEntries[k].old_value # NewAuditEntries[k].new_value
                /\ NewAuditEntries[k].changed_by_name = UserName[last'.req.email]
                /\ NewAuditEntries[k].changed_by_email = Lower(last'.req.email)
          /\ DistinctFactors(last'.req.payload.risk_scores)
             => /\ \A k \in 1..Len(NewAuditEntries) : \E i \in 1..Len(risks) :
                      /\ risks[i].assessment_id = NewAuditEntries[k].assessment_id
                      /\ risks[i].risk_factor_id = NewAuditEntries[k].risk_factor_id
                /\ \A i \in 1..Len(risks) :
                   /\ AuditedOnce(NewAuditEntries, risks[i], risks'[i], "Severity", "Severity")
                   /\ AuditedOnce(NewAuditEntries, risks[i], risks'[i], "Likelihood", "Likelihood")
                   /\ AuditedOnce(NewAuditEntries, risks[i], risks'[i], "Risk Score", "RiskScore")
                   /\ AuditedOnce(NewAuditEntries, risks[i], risks'[i], "Risk Level", "RiskLevel")
      ]_vars

\* A save set the likelihood of a stored risk score from 1 to 2: the trail
\* holds the entries of the likelihood and of the derived score, in the name
\* of the user of that save, and none for the severity or the level.
C24_Witness ==
    /\ last.op = "save" /\ last.outcome = "ok" /\ last.found
    /\ Len(audit_trail) = 2
    /\ audit_trail[1].field_name = "Likelihood"
    /\ audit_trail[1].old_value = "1" /\ audit_trail[1].new_value = "2"
    /\ audit_trail[2].field_name = "Risk Score"
    /\ audit_trail[2].changed_by_email = Lower(last.req.email)
    /\ audit_trail[2].changed_by_name = UserName[last.req.email]

\* C25: a save that a validation of the service refuses (missing study id or
\* assessment date, unknown study, invalid risk factor ids) is answered to
\* the client with a status code from 400 to 499.
C25_ValidationAnsweredAs4xx ==
    (last.op = "save" /\ last.outcome = "bad_request")
        => last.status_code \in 400..499

\* C26: a save for a study that exists but is inactive is refused as a bad
\* request and writes nothing.
C26_InactiveStudyRefused ==
    [][(/\ last'.op = "save"
        /\ last'.req.payload.study_id \in StudyIds
        /\ StudyTable[last'.req.payload.study_id].status = "Inactive")
       => /\ last'.outcome = "bad_request"
          /\ UNCHANGED tables
      ]_vars

\* C27: mark_all_as_read of the service, called with a user type that is
\* neither PI nor SD, does not return a success result.
C27_InvalidUserTypeRaises ==
    (last.op = "test_mark_all_read" /\ Upper(last.req.user_type) \notin {"PI", "SD"})
        => last.outcome # "ok"

\* The Site Directors on record: study 1 has one, study 2 has none.
RecordedSiteDirector(study_id) ==
    IF study_id = 1 THEN [name |-> "Dana", email |-> "sd@x.com"]
    ELSE [name |-> "Unknown", email |-> "unknown@email.com"]

\* C28: right after a successful save, first or later, the assessment has
\* exactly one ApprovalRecord: action "Initial Save", reason "Assessment
\* saved", in the name and e-mail of the study's recorded Site Director, or
\* of the placeholders when the study has none, whoever submitted the save.
C28_SaveLeavesInitialSaveRecord ==
    [][(last'.op = "save" /\ last'.outcome = "ok")
       => RowsOf(approvals', last'.aid) =
            <<[assessment_id |-> last'.aid, action |-> "Initial Save",
               action_by_name |-> RecordedSiteDirector(last'.req.payload.study_id).name,
               action_by_email |-> RecordedSiteDirector(last'.req.payload.study_id).email,
               reason |-> "Assessment saved"]>>
      ]_vars

\* The Principal Investigator saved an approved assessment again: its only
\* ApprovalRecord is the "Initial Save" in the Site Director's name.
C28_Witness ==
    /\ last.op = "save" /\ last.outcome = "ok" /\ last.found
    /\ last.before = "Approved"
    /\ last.req.email = "pi@x.com"
    /\ Len(RowsOf(approvals, last.aid)) = 1
    /\ RowsOf(approvals, last.aid)[1].action = "Initial Save"
    /\ RowsOf(approvals, last.aid)[1].action_by_email = "sd@x.com"

\* The notifications a step created.
NewNotifications ==
    SubSeq(notifications', Len(notifications) + 1, Len(notifications'))

\* C29: whenever a save creates its submission notification, also when the
\* store refuses one of the save's statements, the store already holds the
\* Assessment row, the "Initial Save" ApprovalRecord of the assessment, and
\* the payload's mitigation plans, dashboard and comments.
C29_NotificationAfterCommit ==
    [][\A k \in 1..Len(NewNotifications) :
          (/\ last'.op = "save"
           /\ NewNotifications[k].action \in {"Initial Save", "SD Created"})
          => LET aid == NewNotifications[k].assessment_id
                 p == last'.req.payload
             IN  /\ aid \in 1..Len(assessments')
                 /\ assessments'[aid].study_id = p.study_id
                 /\ \E i \in 1..Len(approvals') :
                       /\ approvals'[i].assessment_id = aid
                       /\ approvals'[i].action = "Initial Save"
                 /\ RowsOf(plans', aid) = StoredAs(aid, p.risk_mitigation_plans)
                 /\ RowsOf(dashboards', aid) = StoredAs(aid, p.risk_dashboard)
                 /\ RowsOf(summary_comments', aid) = StoredAs(aid, p.summary_comments)
                 /\ RowsOf(section_comments', aid) = StoredAs(aid, p.section_comments)
      ]_vars

\* A save whose timeline entry the store refused has created its
\* notification, and the assessment has its "Initial Save" ApprovalRecord.
C29_Witness ==
    /\ last.op = "save" /\ last.outcome = "ok" /\ ~last.found
    /\ last.req.failAt # 0
    /\ RowsOf(timeline, last.aid) = <<>>
    /\ \E k \in 1..Len(notifications) :
          /\ notifications[k].assessment_id = last.aid
          /\ notifications[k].action = "Initial Save"
    /\ \E i \in 1..Len(approvals) :
          /\ approvals[i].assessment_id = last.aid
          /\ approvals[i].action = "Initial Save"

\* C30: every assessment, created by a save or by a draft, has exactly one
\* timeline entry labelled "Initial Assessment", and no "Schedule Update"
\* entry of the assessment comes before it.
C30_OneInitialEntryFirst ==
    \A aid \in 1..Len(assessments) :
        LET entries == RowsOf(timeline, aid)
            initial == {i \in 1..Len(entries) :
                          entries[i].schedule_type.label = "Initial Assessment"}
        IN  /\ Cardinality(initial) = 1
            /\ \A i \in 1..Len(entries) :
                  entries[i].schedule_type.label = "Schedule Update"
                     => \A j \in initial : j < i

\* The number of dash-separated parts of a code.
NumParts(code) == Cardinality({i \in 1..Len(code) : code[i] = "-"}) + 1
\* A code without its last part.
PrefixOf(code) == SubSeq(code, 1, Len(code) - Len(LastPart(code)))
StoredCodes == {assessments[i].assessment_id : i \in 1..Len(assessments)}

\* The sequence number the claim gives a new code among the stored codes.
ClaimedSequence(code, stored) ==
    LET same == {c \in stored : PrefixOf(c) = PrefixOf(code)}
    IN  IF same = {} THEN 1
        ELSE \* the greatest stored code of that prefix
             LET top == CHOOSE c \in same : \A o \in same : ~Less(c, o)
             IN  IF ParseInt(LastPart(top)) = -1 THEN 1
                 ELSE ParseInt(LastPart(top)) + 1

\* C31: with one request at a time, the code of a newly inserted assessment
\* differs from every stored code; its sequence number is 1 when no stored
\* code has its prefix (or the top one's suffix is no number) and otherwise
\* one more than the suffix of the greatest stored code with that prefix;
\* it has 5 dash-separated parts when the study has a sponsor code and 4
\* when it has none.
C31_GeneratedCode ==
    [][Len(assessments') = Len(assessments) + 1 =>
        \A row \in {assessments'[Len(assessments')]}, stored \in {StoredCodes} :
            /\ row.assessment_id \notin stored
            /\ ParseInt(LastPart(row.assessment_id))
                   = ClaimedSequence(row.assessment_id, stored)
            /\ NumParts(row.assessment_id) =
                   IF StudyTable[row.study_id].sponsor_code # <<>> THEN 5 ELSE 4
    ]_vars

\* The first two clauses of C31 alone.
C31_DistinctAndNumbered ==
    [][Len(assessments') = Len(assessments) + 1 =>
        \A row \in {assessments'[Len(assessments')]}, stored \in {StoredCodes} :
            /\ row.assessment_id \notin stored
            /\ ParseInt(LastPart(row.assessment_id))
                   = ClaimedSequence(row.assessment_id, stored)
    ]_vars

\* Three codes of one prefix are stored, numbered 1, 2 and 3.
C31_ThreeOfOnePrefix ==
    \E c \in StoredCodes :
        /\ ParseInt(LastPart(c)) = 3
        /\ Cardinality({o \in StoredCodes : PrefixOf(o) = PrefixOf(c)}) = 3

\* C32: a request that has read its sequence inserts the code it read,
\* whatever has been inserted since; so when another request for a study
\* of the same site, sponsor, protocol and date has inserted that code in
\* between, two Assessment rows carry the same code.
C32_StaleSequenceInserted ==
    [][\A r \in inflight :
        (/\ r.locals.custom_assessment_id # <<>>
         /\ inflight' = inflight \ {r}
         /\ Len(assessments') = Len(assessments) + 1)
        => /\ assessments'[Len(assessments')].assessment_id = r.locals.custom_assessment_id
           /\ r.locals.custom_assessment_id \in StoredCodes
              => \E i \in 1..Len(assessments) :
                    /\ assessments'[i].assessment_id = r.locals.custom_assessment_id
                    /\ assessments'[i].assessment_id
                         = assessments'[Len(assessments')].assessment_id
    ]_vars

\* Two first saves for studies 1 and 2 have interleaved: the Assessment rows
\* of two different studies carry the same code.
C32_Witness ==
    \E i, j \in 1..Len(assessments) :
        /\ assessments[i].study_id # assessments[j].study_id
        /\ assessments[i].assessment_id = assessments[j].assessment_id

\* The notifications addressed to a role, and those of them whose study is
\* not inactive.
OfRole(role) ==
    {i \in 1..Len(notifications) : notifications[i].target_user_type = role}
OnOpenStudy(role) ==
    {i \in OfRole(role) : StudyTable[notifications[i].study_id].status # "Inactive"}

\* The last request was a notification list that was answered.
Listing == last.op = "getNotifications" /\ last.outcome = "ok"
ListedIds == {last.notifications[k].id : k \in DOMAIN last.notifications}

\* The answer is a page of the notifications among: at most 50 of them, in
\* non-increasing action_date order, the most recent ones among them, with
\* the unread count of the page.
IsPageOf(among) ==
    /\ Len(last.notifications) <= 50
    /\ ListedIds \subseteq among
    /\ \A k \in 1..(Len(last.notifications) - 1) :
            last.notifications[k].action_date >= last.notifications[k + 1].action_date
    /\ Len(last.notifications) < 50 => among \subseteq ListedIds
    /\ \A i \in among \ ListedIds : \A j \in ListedIds : i < j
    /\ last.unread_count =
            Cardinality({k \in DOMAIN last.notifications : ~last.notifications[k].read})
    /\ \A k \in DOMAIN last.notifications :
            last.notifications[k].read = notifications[last.notifications[k].id].read_status

\* C33 as stated: the list of a role is the page of the 50 most recent
\* notifications addressed to that role; its unread count counts the page.
C33_ListIsPageOfRole ==
    Listing => IsPageOf(OfRole(Upper(last.req.user_type)))

\* C33: the list of a role is the page of the 50 most recent notifications
\* addressed to that role whose study is not inactive, in non-increasing
\* action_date order; its unread count is the number of unread
\* notifications of the page, so an unread notification beyond the page is
\* in neither.
C33_ListIsPageOfRoleOnOpenStudies ==
    Listing => IsPageOf(OnOpenStudy(Upper(last.req.user_type)))

\* A full page with a read notification on it was returned while an unread
\* notification of the role, on a study that is not inactive, lies beyond it.
C33_Witness ==
    /\ Listing
    /\ Len(last.notifications) = 50
    /\ last.unread_count < 50
    /\ \E i \in OnOpenStudy(Upper(last.req.user_type)) \ ListedIds :
            ~notifications[i].read_status

\* The unread count of the list and the answer of the unread-count query
\* for one role in the current state.
ListUnread(role, tie) == GetNotificationsAnswer(Store, role, tie).unread_count
CountedUnread(role) == GetUnreadCountAnswer(Store, role).unread_count

\* C38: in every state and for each role the unread count of the list is at
\* most the answer of the unread-count query, and the two are equal when
\* the role has at most 50 notifications, all on studies that are not
\* inactive.
C38_ListUnreadWithinCount ==
    \A role \in {"PI", "SD"}, tie \in Ties :
        GetNotificationsAnswer(Store, role, tie).outcome = "ok" =>
            /\ ListUnread(role, tie) <= CountedUnread(role)
            /\ (Cardinality(OfRole(role)) <= 50 /\ OfRole(role) = OnOpenStudy(role))
                    => ListUnread(role, tie) = CountedUnread(role)

\* A role has more than 50 notifications and its list counts fewer unread
\* ones than the unread-count query.
C38_Beyond ==
    \E role \in {"PI", "SD"}, tie \in Ties :
        /\ Cardinality(OfRole(role)) > 50
        /\ ListUnread(role, tie) < CountedUnread(role)

\* The entries an audit query is to return: those of the assessment, of the
\* field when one is requested and of the risk factor when one is requested.
Requested(assessment_id, field_name, risk_factor_id) ==
    {i \in 1..Len(audit_trail) :
        /\ audit_trail[i].assessment_id = assessment_id
        /\ field_name # NULL => audit_trail[i].field_name = field_name
        /\ risk_factor_id # 0 => audit_trail[i].risk_factor_id = risk_factor_id}

\* The field an audit query asks for.
RequestedField ==
    IF last.op = "severityChanges" THEN "Severity"
    ELSE IF last.op = "riskScoreChanges" THEN "Risk Score"
    ELSE IF last.op = "riskLevelChanges" THEN "Risk Level"
    ELSE IF last.op = "auditTrail" THEN last.req.field_name
    ELSE NULL

AuditOps ==
    {"auditTrail", "severityChanges", "riskScoreChanges", "riskLevelChanges",
     "riskFactorAuditTrail"}

\* The answer lists exactly the entries among, newest first, at most limit.
ReturnsNewest(among, limit) ==
    /\ last.outcome = "ok"
    /\ \A k \in DOMAIN last.audit_trail : last.audit_trail[k].id \in among
    /\ \A k \in 1..(Len(last.audit_trail) - 1) :
            last.audit_trail[k].id > last.audit_trail[k + 1].id
    /\ Len(last.audit_trail) = IF Cardinality(among) < limit THEN Cardinality(among) ELSE limit
    /\ \A i \in among : \A k \in DOMAIN last.audit_trail :
            i > last.audit_trail[k].id
                => \E m \in DOMAIN last.audit_trail : last.audit_trail[m].id = i

\* C34: an audit query returns exactly the entries of the assessment with
\* the requested field name (and risk factor), newest first and at most
\* limit of them: so do the queries for the severity, risk-score and
\* risk-level changes and the query by risk factor.
C34_AuditQueryReturnsRequested ==
    last.op \in AuditOps =>
        ReturnsNewest(Requested(last.req.assessment_id, RequestedField,
                                last.req.risk_factor_id),
                      last.req.limit)

\* The query of the whole trail for one field alone.
C34_GenericQueryByField ==
    (last.op = "auditTrail" /\ last.req.field_name # NULL) =>
        ReturnsNewest(Requested(last.req.assessment_id, last.req.field_name,
                                last.req.risk_factor_id),
                      last.req.limit)

\* The query of the whole trail for the Severity entries alone.
C34_GenericQuerySeverity ==
    (last.op = "auditTrail" /\ last.req.field_name = "Severity") =>
        ReturnsNewest(Requested(last.req.assessment_id, last.req.field_name,
                                last.req.risk_factor_id),
                      last.req.limit)

\* Two Severity entries are stored and the query for them returned the
\* newer one under a limit of 1.
C34_SeverityReached ==
    /\ last.op = "auditTrail" /\ last.req.field_name = "Severity"
    /\ last.req.limit = 1 /\ Len(last.audit_trail) = 1
    /\ Cardinality(Requested(last.req.assessment_id, "Severity", 0)) >= 2

\* An approval record with this action exists for the assessment.
HasRecord(aid, action) ==
    \E k \in 1..Len(approvals) :
        approvals[k].assessment_id = aid /\ approvals[k].action = action

\* The assessments of the user's studies that are in a status.
InStatus(user_email, user_type, status) ==
    {a \in 1..Len(assessments) :
        /\ assessments[a].study_id \in StudiesOfUser(user_email, user_type)
        /\ assessments[a].status = status}

\* C35: between requests, none of which failed, an assessment is "Approved"
\* exactly when it has an approval record with action "Approved" and
\* "Rejected" exactly when it has one with action "Rejected", so the
\* dashboard's counts of approved and rejected assessments are the numbers
\* of assessments in these statuses.
C35_StatusMatchesApprovalRecords ==
    /\ \A aid \in 1..Len(assessments) :
            /\ assessments[aid].status = "Approved" <=> HasRecord(aid, "Approved")
            /\ assessments[aid].status = "Rejected" <=> HasRecord(aid, "Rejected")
    /\ \A user_type \in {"PI", "SD"}, user_email \in {"pi@x.com", "sd@x.com"} :
            /\ TotalApprovedAssessments(Store, user_email, user_type)
                 = Cardinality(InStatus(user_email, user_type, "Approved"))
            /\ TotalRejectedAssessments(Store, user_email, user_type)
                 = Cardinality(InStatus(user_email, user_type, "Rejected"))

\* The first half of C35 in one direction: the status of a decision is
\* backed by its record.
C35_DecidedHasRecord ==
    \A aid \in 1..Len(assessments) :
        /\ assessments[aid].status = "Approved" => HasRecord(aid, "Approved")
        /\ assessments[aid].status = "Rejected" => HasRecord(aid, "Rejected")

\* The decision records of an assessment.
DecisionRecords(aid) ==
    {i \in 1..Len(approvals) :
        /\ approvals[i].assessment_id = aid
        /\ approvals[i].action \in {"Approved", "Rejected"}}

\* C36: a draft save on a study that has an assessment leaves that assessment
\* "In Progress" whatever its status was, and the approve or reject that
\* follows the draft save on that assessment is not refused for its status.
C36_DraftReopens ==
    [][/\ (last'.op = "saveDraft" /\ last'.outcome = "ok" /\ last'.found)
          => /\ assessments'[last'.aid].status = "In Progress"
             /\ assessments'[last'.aid].status \in Reviewable
       /\ ( /\ last.op = "saveDraft" /\ last.outcome = "ok" /\ last.found
            /\ last'.op \in {"approve", "reject"}
            /\ last'.req.assessment_id = last.aid
            /\ last'.req.failAt = 0
            /\ (last'.op = "approve" \/ Strip(last'.req.reason) # "") )
          => /\ last'.outcome = "ok"
             /\ last'.before = "In Progress"
             /\ Cardinality(DecisionRecords(last.aid)')
                   = Cardinality(DecisionRecords(last.aid)) + 1
      ]_vars

\* An assessment decided once has been decided a second time after a draft
\* save: a full save in between would have deleted the first decision record.
C36_DecidedTwice ==
    /\ last.op \in {"approve", "reject"} /\ last.outcome = "ok"
    /\ last.before = "In Progress"
    /\ Cardinality(DecisionRecords(last.aid)) = 2

\* C37: a decision on an assessment it found in "Pending Review" that
\* succeeds finds the assessment still in a status from which a decision is
\* accepted when it writes, so that of the decisions issued together on the
\* assessment one succeeds and writes, and the assessment has one decision
\* record.
C37_OneDecisionWins ==
    [][\A r \in inflight :
          ( /\ r.status = "Pending Review"
            /\ inflight' = inflight \ {r}
            /\ last'.op \in {"approve", "reject"} /\ last'.outcome = "ok" )
          => /\ StatusOf(Store, r.aid) \in Reviewable
             /\ Cardinality(DecisionRecords(last.aid)') = 1
      ]_vars
====
